---------------------------- MODULE Spec2Model ----------------------------
(***************************************************************************)
(* A model of the real-time wearable telemetry pipeline of the health      *)
(* counselor demo: the anomaly detector (anomaly_detector.py), the goal    *)
(* tracker (goal_tracker.py), the alert fan-out queue (alert_queue.py) and *)
(* the per-event ingest path (lifecycle.py).                               *)
(*                                                                         *)
(* Values are integers where the program has floats; a mean, a variance    *)
(* and a squared deviation are exact rationals <<numerator, denominator>>, *)
(* compared by cross-multiplication, so no rounding is modelled.           *)
(***************************************************************************)
EXTENDS Integers, Sequences, FiniteSets, TLC

VARIABLES
    \* AnomalyDetector
    stats,            \* _stats: a dict, data type -> RollingStats
    anomaly_history,  \* _anomaly_history
    now,              \* datetime.now(timezone.utc), in hours
    recorded,         \* data type -> add_reading calls since construction/reset
    poisoned,         \* data types whose window holds a value that is not finite
    det_ret,          \* the last call of the detector and what it returned
    \* GoalTracker
    goals,            \* goals: a dict, data type -> GoalDefinition
    goal_order,       \* the insertion order of the keys of goals and _progress
    current_date,     \* _current_date (0: None)
    progress,         \* _progress: a dict, data type -> GoalProgress
    event_history,    \* _event_history
    today,            \* date.today()
    goal_ret,         \* the last call of the tracker and what it returned
    goal_obs,         \* the rollover the last call made, if it made one
    achieved_today,   \* data type -> 'achieved' events returned this calendar day
    admin_calls,      \* number of add_goal, remove_goal and reset calls so far
    \* AlertQueue
    max_history,      \* the max_history the queue was built with
    history,          \* _history
    subscribers,      \* _subscribers: the registered mailboxes, by stream
    mailbox,          \* stream -> the content of its asyncio.Queue
    aq_stats,         \* _stats
    stream,           \* stream -> where its subscribe() generator stands
    received,         \* stream -> the alerts its generator has yielded
    published,        \* every alert published, in the order of history.append
    reg_at,           \* stream -> Len(published) when it registered
    preload,          \* stream -> the history slice its mailbox started with
    dropped_at,       \* stream -> index of the alert that found its mailbox full
    cleared,          \* clear_history was called
    aq_ret,           \* what the last call returned, if it was a read
    \* AlertQueue, one step per statement (the threads of publish)
    lock,             \* _lock: 0 free, else the holder
    threads,          \* thread -> its position in publish and its locals
    completed,        \* number of publish calls that have returned
    \* the ingest path
    event_count,      \* _state.event_count
    events_by_type,   \* _state.events_by_type
    fitness_db,       \* today's row of the fitness database: column -> value
    latest_readings,  \* _state.latest_readings
    pending_events,   \* agent_context.pending_events
    notifications,    \* lines written by write_health_notification
    dashboard_up,     \* the dashboard API answers the POST
    ingest_obs,       \* what the last process_wearable_data saw and did
    \* the pending events, one step per statement (worker and agent threads)
    getter,           \* where get_pending_events stands, and its local events
    returned,         \* what the get_pending_events calls returned, in order
    stored_events,    \* every event handed to store_pending_event, in order
    \* ReportScheduler, one step per statement (the caller and the timer threads)
    _scheduler_running,  \* _scheduler_running
    _scheduler_timer,    \* _scheduler_timer: a timer, or 0 for None
    timers,           \* timer -> where the threading.Timer and its callback stand
    caller,           \* where the caller of start_scheduler/stop_scheduler stands
    sched_calls,      \* number of start_scheduler and stop_scheduler calls begun
    generations       \* the timers whose callback started generate_report, in order

detVars == <<stats, anomaly_history, now, recorded, poisoned, det_ret>>
goalVars == <<goals, goal_order, current_date, progress, event_history, today, goal_ret,
              goal_obs, achieved_today, admin_calls>>
queueVars == <<max_history, history, subscribers, mailbox, aq_stats, stream,
               received, published, reg_at, preload, dropped_at, cleared, aq_ret>>
concVars == <<lock, threads, completed>>
ingestVars == <<event_count, events_by_type, fitness_db, latest_readings, pending_events, notifications, dashboard_up,
                ingest_obs>>
pendVars == <<getter, returned, stored_events>>
schedVars == <<_scheduler_running, _scheduler_timer, timers, caller, sched_calls, generations>>
vars == <<detVars, goalVars, queueVars, concVars, ingestVars, pendVars, schedVars>>

-----------------------------------------------------------------------------
(* Helpers                                                                 *)

Min(a, b) == IF a <= b THEN a ELSE b
Max(a, b) == IF a >= b THEN a ELSE b
Abs(a) == IF a >= 0 THEN a ELSE -a

\* s[-n:] of Python for n >= 1: the last n elements (all of s when n >= len).
LastN(s, n) == SubSeq(s, Max(1, Len(s) - n + 1), Len(s))

\* Rationals <<n, d>> with d > 0.
RatEq(a, b) == a[1] * b[2] = b[1] * a[2]
RatGe(a, b) == a[1] * b[2] >= b[1] * a[2]
RatMul(a, b) == <<a[1] * b[1], a[2] * b[2]>>

RECURSIVE SeqSum(_)
SeqSum(s) == IF s = <<>> THEN 0 ELSE Head(s) + SeqSum(Tail(s))

RECURSIVE SeqSumSq(_)
SeqSumSq(s) == IF s = <<>> THEN 0 ELSE Head(s) * Head(s) + SeqSumSq(Tail(s))

RECURSIVE SeqMin(_)
SeqMin(s) == IF Len(s) = 1 THEN Head(s) ELSE Min(Head(s), SeqMin(Tail(s)))

RECURSIVE SeqMax(_)
SeqMax(s) == IF Len(s) = 1 THEN Head(s) ELSE Max(Head(s), SeqMax(Tail(s)))

\* A Python dict d with d[k] = v assigned.
DictSet(d, k, v) == [x \in DOMAIN d \cup {k} |-> IF x = k THEN v ELSE d[x]]

\* A Python dict d with del d[k].
DictDel(d, k) == [x \in DOMAIN d \ {k} |-> d[x]]

EmptyDict == [x \in {} |-> 0]

\* A slip of the deque: a full deque refuses the new element.
DequeAppend_keepold(s, x, maxlen) == IF Len(s) >= maxlen THEN s ELSE Append(s, x)

\* A slip of the deque: appendleft, the newest element leaving a full deque.
DequeAppend_left(s, x, maxlen) ==
    IF maxlen = 0 THEN <<>> ELSE SubSeq(<<x>> \o s, 1, Min(Len(s) + 1, maxlen))

\* deque(maxlen=n).append(x): the oldest element leaves a full deque.
DequeAppend(s, x, maxlen) ==
    IF maxlen = 0 THEN <<>> ELSE LastN(Append(s, x), maxlen)

-----------------------------------------------------------------------------
(* AnomalyDetector (src/src/wearable_listener/anomaly_detector.py)         *)

DataTypes == {"heart_rate", "steps", "sleep", "stress", "workout", "unknown"}

\* sigma_threshold is a rational: 2.0 = <<2, 1>>, 2.5 = <<5, 2>>.
DEFAULT_THRESHOLDS ==
    [heart_rate |-> [sigma_threshold |-> <<2, 1>>, critical_high |-> 120,
                     critical_low |-> 40, min_readings |-> 10],
     steps      |-> [sigma_threshold |-> <<5, 2>>, min_readings |-> 5],
     sleep      |-> [sigma_threshold |-> <<2, 1>>, critical_low |-> 4,
                     min_readings |-> 7],
     stress     |-> [sigma_threshold |-> <<2, 1>>, critical_high |-> 9,
                     min_readings |-> 5],
     workout    |-> [sigma_threshold |-> <<5, 2>>, min_readings |-> 3]]

\* AnomalyDetector(window_hours=24, sigma_threshold=2.0, min_readings=5)
window_hours == 24
default_sigma == <<2, 1>>
default_min_readings == 5

\* The capacity of a data type's deque of readings (the program's is 1000)
\* and of the anomaly history (the program's is 100).
ReadingsMaxlen == 12
AnomalyHistoryMaxlen == 2

\* thresholds = self.DEFAULT_THRESHOLDS.get(data_type, {})
Thresholds(data_type) ==
    IF data_type \in DOMAIN DEFAULT_THRESHOLDS
    THEN DEFAULT_THRESHOLDS[data_type] ELSE EmptyDict

sigma_threshold(data_type) ==
    IF "sigma_threshold" \in DOMAIN Thresholds(data_type)
    THEN Thresholds(data_type).sigma_threshold ELSE default_sigma

min_readings(data_type) ==
    IF "min_readings" \in DOMAIN Thresholds(data_type)
    THEN Thresholds(data_type).min_readings ELSE default_min_readings

HasCriticalHigh(data_type) == "critical_high" \in DOMAIN Thresholds(data_type)
HasCriticalLow(data_type) == "critical_low" \in DOMAIN Thresholds(data_type)
critical_high(data_type) == Thresholds(data_type).critical_high
critical_low(data_type) == Thresholds(data_type).critical_low

\* float('inf') / float('-inf') as the value of min_val / max_val.
Infinite == [inf |-> TRUE, v |-> 0]
Finite(x) == [inf |-> FALSE, v |-> x]

\* RollingStats(readings=deque(maxlen=1000)); std_sq is std_dev squared.
NewRollingStats ==
    [readings |-> <<>>, mean |-> <<0, 1>>, std_sq |-> <<0, 1>>,
     min_val |-> Infinite, max_val |-> Infinite, count |-> 0]

\* while stats.readings and stats.readings[0][0] < cutoff: popleft()
RECURSIVE PruneFront(_, _)
PruneFront(readings, cutoff) ==
    IF readings # <<>> /\ Head(readings)[1] < cutoff
    THEN PruneFront(Tail(readings), cutoff)
    ELSE readings

_prune_old_readings(rs, clock) ==
    [rs EXCEPT !.readings = PruneFront(rs.readings, clock - window_hours)]

ValuesOf(readings) == [i \in 1..Len(readings) |-> readings[i][2]]

\* statistics.mean is sum/n; statistics.stdev squared is
\* (n * sum of squares - sum^2) / (n * (n - 1)).
_recalculate_stats(rs) ==
    IF rs.readings = <<>>
    THEN [rs EXCEPT !.count = 0, !.mean = <<0, 1>>, !.std_sq = <<0, 1>>]
    ELSE LET values == ValuesOf(rs.readings)
             n == Len(values)
             S == SeqSum(values)
             Q == SeqSumSq(values)
         IN  [rs EXCEPT !.count = n,
                        !.mean = <<S, n>>,
                        !.min_val = Finite(SeqMin(values)),
                        !.max_val = Finite(SeqMax(values)),
                        !.std_sq = IF n >= 2
                                   THEN <<n * Q - S * S, n * (n - 1)>>
                                   ELSE <<0, 1>>]

\* add_reading(data_type, value, timestamp) at time clock: the new _stats.
add_reading(st, data_type, value, timestamp, clock) ==
    LET st1 == IF data_type \in DOMAIN st THEN st
               ELSE DictSet(st, data_type, NewRollingStats)
        rs  == st1[data_type]
        rs1 == [rs EXCEPT !.readings =
                   DequeAppend(rs.readings, <<timestamp, value>>, ReadingsMaxlen)]
    IN  DictSet(st1, data_type,
                _recalculate_stats(_prune_old_readings(rs1, clock)))

_get_mean(st, data_type) ==
    IF data_type \in DOMAIN st THEN st[data_type].mean ELSE <<0, 1>>

_get_std_sq(st, data_type) ==
    IF data_type \in DOMAIN st THEN st[data_type].std_sq ELSE <<0, 1>>

\* deviation_sigma: float('inf'), or a number given by its square.
DevInf == [inf |-> TRUE, sq |-> <<0, 1>>]
Dev(sq) == [inf |-> FALSE, sq |-> sq]

AnomalyResult(detected, data_type, value, mean, std_sq, deviation, severity, message) ==
    [detected |-> detected, data_type |-> data_type, value |-> value,
     baseline_mean |-> mean, baseline_std_sq |-> std_sq,
     deviation_sigma |-> deviation, severity |-> severity, message |-> message]

\* A slip of the comparison: the threshold itself no longer counts.
CrossesCriticalHigh_strict(data_type, value) ==
    HasCriticalHigh(data_type) /\ value > critical_high(data_type)

\* critical_high is not None and value >= critical_high
CrossesCriticalHigh(data_type, value) ==
    HasCriticalHigh(data_type) /\ value >= critical_high(data_type)

\* critical_low is not None and value <= critical_low
CrossesCriticalLow(data_type, value) ==
    HasCriticalLow(data_type) /\ value <= critical_low(data_type)

\* A slip of the guard: only a missing key counts as no baseline.
InsufficientBaseline_nokey(st, data_type) == data_type \notin DOMAIN st

\* not stats or stats.count < min_readings
InsufficientBaseline(st, data_type) ==
    \/ data_type \notin DOMAIN st
    \/ st[data_type].count < min_readings(data_type)

\* (abs(value - stats.mean) / stats.std_dev) squared, for std_dev # 0
DeviationSq(rs, value) ==
    LET d == value * rs.mean[2] - rs.mean[1]
    IN  <<d * d * rs.std_sq[2], rs.mean[2] * rs.mean[2] * rs.std_sq[1]>>

\* A slip of the severity test: the factor 1.5 is left out.
DeviationAtLeast_nofactor(dev_sq, thr, factor) == RatGe(dev_sq, RatMul(thr, thr))

\* deviation_sigma >= sigma_threshold * factor, factor a rational
DeviationAtLeast(dev_sq, thr, factor) ==
    LET t == RatMul(thr, factor) IN RatGe(dev_sq, RatMul(t, t))

\* check_anomaly(data_type, value): the result and the new _anomaly_history.
check_anomaly(st, hist, data_type, value) ==
    IF CrossesCriticalHigh(data_type, value)
    THEN [result |-> AnomalyResult(TRUE, data_type, value,
                        _get_mean(st, data_type), _get_std_sq(st, data_type),
                        DevInf, "critical", "exceeds threshold"),
          anomaly_history |-> hist]
    ELSE IF CrossesCriticalLow(data_type, value)
    THEN [result |-> AnomalyResult(TRUE, data_type, value,
                        _get_mean(st, data_type), _get_std_sq(st, data_type),
                        DevInf, "critical", "below threshold"),
          anomaly_history |-> hist]
    ELSE IF InsufficientBaseline(st, data_type)
    THEN [result |-> AnomalyResult(FALSE, data_type, value,
                        _get_mean(st, data_type), _get_std_sq(st, data_type),
                        Dev(<<0, 1>>), "info", "insufficient baseline"),
          anomaly_history |-> hist]
    ELSE IF st[data_type].std_sq[1] = 0
    THEN [result |-> AnomalyResult(FALSE, data_type, value,
                        st[data_type].mean, <<0, 1>>,
                        Dev(<<0, 1>>), "info", "no variance"),
          anomaly_history |-> hist]
    ELSE LET rs == st[data_type]
             dev == DeviationSq(rs, value)
         IN  IF DeviationAtLeast(dev, sigma_threshold(data_type), <<1, 1>>)
             THEN LET high == value * rs.mean[2] > rs.mean[1]
                      severity ==
                          IF DeviationAtLeast(dev, sigma_threshold(data_type),
                                              <<3, 2>>)
                          THEN "warning" ELSE "info"
                      result == AnomalyResult(TRUE, data_type, value, rs.mean,
                                    rs.std_sq, Dev(dev), severity,
                                    IF high THEN "anomaly high"
                                    ELSE "anomaly low")
                  IN  [result |-> result,
                       anomaly_history |->
                           DequeAppend(hist, result, AnomalyHistoryMaxlen)]
             ELSE [result |-> AnomalyResult(FALSE, data_type, value, rs.mean,
                                  rs.std_sq, Dev(dev), "info", "within normal range"),
                   anomaly_history |-> hist]

\* get_baseline(data_type): None (count 0) when there are no statistics.
get_baseline(st, data_type) ==
    IF data_type \notin DOMAIN st \/ st[data_type].count = 0
    THEN [count |-> 0]
    ELSE [mean |-> st[data_type].mean, std_sq |-> st[data_type].std_sq,
          min |-> st[data_type].min_val, max |-> st[data_type].max_val,
          count |-> st[data_type].count, window_hours |-> window_hours]

\* get_all_baselines(): the baselines that are not None, by data type.
get_all_baselines(st) ==
    [dt \in {d \in DOMAIN st : st[d].count # 0} |-> get_baseline(st, dt)]

\* sum(s.count for s in self._stats.values())
RECURSIVE SumCounts(_, _)
SumCounts(st, ds) ==
    IF ds = {} THEN 0
    ELSE LET d == CHOOSE x \in ds : TRUE
         IN  st[d].count + SumCounts(st, ds \ {d})

\* AnomalyDetector.get_stats()
detector_get_stats(st, hist) ==
    [data_types_tracked |-> DOMAIN st,
     total_readings |-> SumCounts(st, DOMAIN st),
     anomalies_detected |-> Len(hist),
     window_hours |-> window_hours,
     baselines |-> get_all_baselines(st)]

\* reset(data_type): one type's statistics, or everything for None ("").
reset_stats(st, data_type) ==
    IF data_type # ""
    THEN IF data_type \in DOMAIN st THEN DictDel(st, data_type) ELSE st
    ELSE EmptyDict

reset_history(hist, data_type) == IF data_type # "" THEN hist ELSE <<>>

-----------------------------------------------------------------------------
(* GoalTracker (src/src/wearable_listener/goal_tracker.py)                 *)
(* The tracker is the record [goals, order, current_date, progress,        *)
(* event_history]; a date is a day number, 0 standing for None; a          *)
(* timestamp is the day it was taken on, 0 standing for None;              *)
(* reminder_threshold is given in percent (0.6 is 60).                     *)

GoalDefinition(name, data_type, target, is_cumulative, reminder_percent) ==
    [name |-> name, data_type |-> data_type, target |-> target, is_cumulative |-> is_cumulative, reminder_percent |-> reminder_percent]

DEFAULT_GOALS ==
    << GoalDefinition("Daily Steps", "steps", 10000, TRUE, 60),
       GoalDefinition("Active Minutes", "active_minutes", 30, TRUE, 50),
       GoalDefinition("Sleep Duration", "sleep", 7, FALSE, 80),
       GoalDefinition("Water Intake", "water", 8, TRUE, 50) >>

\* GoalProgress(goal=goal), created at time timestamp
GoalProgress(goal, timestamp) ==
    [goal |-> goal, current_value |-> 0, status |-> "not_started",
     achieved_at |-> 0, last_updated |-> timestamp,
     notified_achieved |-> FALSE, notified_at_risk |-> FALSE]

\* GoalProgress.progress_percent, a rational (targets are >= 0)
progress_percent(p) ==
    IF p.goal.target = 0 THEN <<100, 1>>
    ELSE IF p.current_value <= p.goal.target
         THEN <<p.current_value * 100, p.goal.target>>
         ELSE <<100, 1>>

\* GoalProgress.remaining
remaining(p) == Max(p.goal.target - p.current_value, 0)

GoalEvent(event_type, p, data_type, timestamp) ==
    [event_type |-> event_type, goal_name |-> p.goal.name, data_type |-> data_type, current_value |-> p.current_value, target_value |-> p.goal.target, progress_percent |-> progress_percent(p), timestamp |-> timestamp]

NoEvent == [event_type |-> "None"]

\* A slip of the test: only the goals that were under way are marked missed.
_archive_day_started(prog) ==
    [dt \in DOMAIN prog |->
        IF prog[dt].status = "in_progress"
        THEN [prog[dt] EXCEPT !.status = "missed"]
        ELSE prog[dt]]

\* _archive_day: the previous day's unachieved goals are marked missed.
_archive_day(prog) ==
    [dt \in DOMAIN prog |->
        IF prog[dt].status # "achieved"
        THEN [prog[dt] EXCEPT !.status = "missed"]
        ELSE prog[dt]]

\* The fresh _progress of a new day: one GoalProgress per configured goal.
FreshProgress(gs, timestamp) ==
    [dt \in DOMAIN gs |-> GoalProgress(gs[dt], timestamp)]

\* _ensure_current_day with date.today() = d: the tracker after it.
_ensure_current_day(tr, d) ==
    IF tr.current_date # d
    THEN [tr EXCEPT !.current_date = d, !.progress = FreshProgress(tr.goals, d)]
    ELSE tr

\* What a rollover observed with date.today() = d leaves behind: the old
\* _progress, the objects _archive_day marked, the fresh _progress.
RolloverObserved(tr, d) ==
    [before |-> tr.progress,
     archived |-> IF tr.current_date # 0 THEN _archive_day(tr.progress)
                  ELSE tr.progress,
     fresh |-> _ensure_current_day(tr, d).progress,
     configured |-> DOMAIN tr.goals]

\* The status update_progress gives a goal from its new current_value.
StatusOf(current_value, target) ==
    IF current_value >= target THEN "achieved"
    ELSE IF current_value > 0 THEN "in_progress"
    ELSE "not_started"

\* A slip of the update: a cumulative update is added to the stored total.
NewValue_added(goal, current_value, value, is_cumulative_update) ==
    IF goal.is_cumulative /\ is_cumulative_update
    THEN current_value + value ELSE value

\* The current_value update_progress stores: both branches of the
\* is_cumulative test assign the incoming value.
NewValue(goal, current_value, value, is_cumulative_update) ==
    IF goal.is_cumulative /\ is_cumulative_update
    THEN value ELSE value

\* progress.status == ACHIEVED and not progress.notified_achieved
ShouldNotifyAchieved(p) == p.status = "achieved" /\ ~p.notified_achieved

\* update_progress(data_type, value, is_cumulative_update, timestamp) with
\* date.today() = d: the tracker after it and the event returned.
update_progress(tr, data_type, value, is_cumulative_update, timestamp, d) ==
    LET tr1 == _ensure_current_day(tr, d)
    IN  IF data_type \notin DOMAIN tr1.goals
        THEN [tracker |-> tr1, ret |-> NoEvent]
        ELSE LET p0 == tr1.progress[data_type]
                 goal == p0.goal
                 p1 == [p0 EXCEPT !.current_value =
                           NewValue(goal, p0.current_value, value, is_cumulative_update),
                        !.last_updated = timestamp]
                 st == StatusOf(p1.current_value, goal.target)
                 p2 == [p1 EXCEPT !.status = st,
                           !.achieved_at =
                               IF st = "achieved" /\ p1.achieved_at = 0
                               THEN timestamp ELSE p1.achieved_at]
                 notify == ShouldNotifyAchieved(p2)
                 p3 == [p2 EXCEPT !.notified_achieved = notify \/ @]
                 event == IF notify
                          THEN GoalEvent("achieved", p3, data_type, timestamp)
                          ELSE NoEvent
             IN  [tracker |->
                     [tr1 EXCEPT !.progress = DictSet(tr1.progress, data_type, p3),
                         !.event_history =
                             IF notify THEN Append(@, event) ELSE @],
                  ret |-> event]

\* progress.progress_percent < goal.reminder_threshold * 100
BelowReminder(p) == RatGe(<<p.goal.reminder_percent, 1>>, progress_percent(p)) /\ ~RatEq(<<p.goal.reminder_percent, 1>>, progress_percent(p))

\* A slip of the guard: the reminder already sent is not looked at.
AlreadyNotified_never(p) == FALSE

\* if progress.notified_at_risk: continue
AlreadyNotified(p) == p.notified_at_risk

\* A slip of the gate: the evening starts at noon.
BeforeEvening_noon(current_hour) == current_hour < 12

\* if current_hour < 18: return events
BeforeEvening(current_hour) == current_hour < 18

\* The loop of check_at_risk_goals over the keys still to visit, in order.
RECURSIVE AtRiskLoop(_, _, _, _)
AtRiskLoop(keys, prog, events, timestamp) ==
    IF keys = <<>> THEN [progress |-> prog, events |-> events]
    ELSE LET dt == Head(keys)
             p == prog[dt]
         IN  IF p.status = "achieved" \/ AlreadyNotified(p) \/ ~BelowReminder(p)
             THEN AtRiskLoop(Tail(keys), prog, events, timestamp)
             ELSE LET p1 == [p EXCEPT !.status = "at_risk", !.notified_at_risk = TRUE]
                  IN  AtRiskLoop(Tail(keys), DictSet(prog, dt, p1),
                                 Append(events, GoalEvent("at_risk", p1, dt, timestamp)),
                                 timestamp)

\* check_at_risk_goals(current_hour) with date.today() = d.
check_at_risk_goals(tr, current_hour, d) ==
    LET tr1 == _ensure_current_day(tr, d)
    IN  IF BeforeEvening(current_hour)
        THEN [tracker |-> tr1, ret |-> <<>>]
        ELSE LET r == AtRiskLoop(tr1.order, tr1.progress, <<>>, d)
             IN  [tracker |-> [tr1 EXCEPT !.progress = r.progress,
                                  !.event_history = @ \o r.events],
                  ret |-> r.events]

\* get_progress / get_all_progress / get_summary: the day check, then a read.
get_all_progress(tr, d) ==
    LET tr1 == _ensure_current_day(tr, d)
    IN  [tracker |-> tr1, ret |-> tr1.progress]

\* add_goal(goal), called at time timestamp (no day check).
add_goal(tr, goal, timestamp) ==
    [tr EXCEPT !.goals = DictSet(@, goal.data_type, goal),
               !.order = IF goal.data_type \in DOMAIN tr.goals THEN @
                         ELSE Append(@, goal.data_type),
               !.progress = IF tr.current_date # 0
                            THEN DictSet(@, goal.data_type, GoalProgress(goal, timestamp))
                            ELSE @]

\* remove_goal(data_type) (no day check).
remove_goal(tr, data_type) ==
    IF data_type \in DOMAIN tr.goals
    THEN [tr EXCEPT !.goals = DictDel(@, data_type),
                    !.order = SelectSeq(@, LAMBDA k : k # data_type),
                    !.progress = IF data_type \in DOMAIN @
                                 THEN DictDel(@, data_type) ELSE @]
    ELSE tr

\* reset() with date.today() = d.
reset(tr, d) ==
    _ensure_current_day([tr EXCEPT !.current_date = 0, !.progress = EmptyDict], d)

\* GoalTracker(goals=gl) for a list with one goal per data type: the given
\* goals, then _ensure_current_day() on day d.
GoalTrackerWith(gl, d) ==
    LET gs == [dt \in {gl[i].data_type : i \in 1..Len(gl)} |->
                  LET i == CHOOSE j \in 1..Len(gl) :
                               /\ gl[j].data_type = dt
                               /\ \A k \in (j + 1)..Len(gl) : gl[k].data_type # dt
                  IN  gl[i]]
    IN  _ensure_current_day(
            [goals |-> gs,
             order |-> [i \in 1..Len(gl) |-> gl[i].data_type],
             current_date |-> 0, progress |-> EmptyDict, event_history |-> <<>>], d)

\* GoalTracker(): the default goals, then _ensure_current_day() on day d.
NewGoalTracker(d) ==
    LET gs == [dt \in {DEFAULT_GOALS[i].data_type : i \in 1..Len(DEFAULT_GOALS)} |->
                  LET i == CHOOSE j \in 1..Len(DEFAULT_GOALS) :
                               DEFAULT_GOALS[j].data_type = dt
                  IN  DEFAULT_GOALS[i]]
    IN  _ensure_current_day(
            [goals |-> gs,
             order |-> [i \in 1..Len(DEFAULT_GOALS) |-> DEFAULT_GOALS[i].data_type],
             current_date |-> 0, progress |-> EmptyDict, event_history |-> <<>>], d)

-----------------------------------------------------------------------------
(* AlertQueue (src/server/dashboard_api/services/alert_queue.py)           *)
(* The queue is the record [history, subscribers, mailbox, stats]; a       *)
(* mailbox (an asyncio.Queue) is named by the stream that created it.      *)

AlertTypes == {"anomaly_detected", "goal_achieved"}

\* AutomationAlert: id stands for the uuid4, unique per alert.
AutomationAlert(id, alert_type) == [id |-> id, alert_type |-> alert_type]

\* The capacity of a subscriber's asyncio.Queue (the program's is 100).
QueueMaxsize == 1

\* list[-n:] of Python for any integer n.
PySliceLast(s, n) ==
    IF n > 0 THEN LastN(s, n)
    ELSE IF n = 0 THEN s
    ELSE SubSeq(s, Min(-n, Len(s)) + 1, Len(s))

\* list[::-1]
Reverse(s) == [i \in 1..Len(s) |-> s[Len(s) + 1 - i]]

\* list.remove(x) for an x that occurs once
ListRemove(s, x) == SelectSeq(s, LAMBDA y : y # x)

InList(s, x) == \E i \in 1..Len(s) : s[i] = x

\* asyncio.Queue.full()
QueueFull(mb) == Len(mb) >= QueueMaxsize

\* AlertQueue(max_history)
NewAlertQueue(streams) ==
    [history |-> <<>>, subscribers |-> <<>>,
     mailbox |-> [s \in streams |-> <<>>],
     stats |-> [total_published |-> 0, total_subscribers |-> 0,
                alerts_by_type |-> EmptyDict]]

\* alerts_by_type[t] = alerts_by_type.get(t, 0) + 1
CountType(by_type, t) ==
    DictSet(by_type, t, (IF t \in DOMAIN by_type THEN by_type[t] ELSE 0) + 1)

\* A slip of the loop: it stops after the first subscriber.
NotifyLoop_first(subs, mb, dead, alert) ==
    IF subs = <<>> THEN [mailbox |-> mb, dead |-> dead]
    ELSE IF QueueFull(mb[Head(subs)])
         THEN [mailbox |-> mb, dead |-> Append(dead, Head(subs))]
         ELSE [mailbox |-> [mb EXCEPT ![Head(subs)] = Append(@, alert)], dead |-> dead]

\* The notification loop of publish over the subscribers still to visit:
\* put_nowait, or the mailbox joins dead_subscribers when it is full.
RECURSIVE NotifyLoop(_, _, _, _)
NotifyLoop(subs, mb, dead, alert) ==
    IF subs = <<>> THEN [mailbox |-> mb, dead |-> dead]
    ELSE LET s == Head(subs)
         IN  IF QueueFull(mb[s])
             THEN NotifyLoop(Tail(subs), mb, Append(dead, s), alert)
             ELSE NotifyLoop(Tail(subs), [mb EXCEPT ![s] = Append(@, alert)],
                             dead, alert)

\* A slip of the clean-up: the dead subscribers stay registered.
RemoveDead_none(subs, dead) == subs

\* for queue in dead_subscribers: self._subscribers.remove(queue)
RECURSIVE RemoveDead(_, _)
RemoveDead(subs, dead) ==
    IF dead = <<>> THEN subs
    ELSE RemoveDead(ListRemove(subs, Head(dead)), Tail(dead))

\* publish(alert) on a queue built with max_history = H.
publish(q, alert, H) ==
    LET r == NotifyLoop(q.subscribers, q.mailbox, <<>>, alert)
    IN  [history |-> DequeAppend(q.history, alert, H),
         subscribers |-> RemoveDead(q.subscribers, r.dead),
         mailbox |-> r.mailbox,
         stats |-> [q.stats EXCEPT
                       !.total_published = @ + 1,
                       !.alerts_by_type = CountType(@, alert.alert_type)]]

\* The preload of subscribe: put_nowait of each alert of recent, in order;
\* QueueFull is raised by the first one that finds the mailbox full.
RECURSIVE PreloadLoop(_, _)
PreloadLoop(mb, recent) ==
    IF recent = <<>> THEN [mailbox |-> mb, error |-> FALSE]
    ELSE IF QueueFull(mb) THEN [mailbox |-> mb, error |-> TRUE]
    ELSE PreloadLoop(Append(mb, Head(recent)), Tail(recent))

\* subscribe(include_history, history_count) of stream s, from the creation
\* of its mailbox to the end of the locked block: the queue after it, and
\* whether QueueFull left the generator before it entered its try block.
subscribe_register(q, s, include_history, history_count) ==
    LET recent == IF include_history
                  THEN PySliceLast(q.history, history_count) ELSE <<>>
        r == PreloadLoop(<<>>, recent)
    IN  [queue |-> [q EXCEPT !.subscribers = Append(@, s),
                             !.stats.total_subscribers = @ + 1,
                             !.mailbox[s] = r.mailbox],
         error |-> r.error]

\* The finally block of subscribe: the mailbox leaves the subscriber list.
subscribe_finally(q, s) ==
    IF InList(q.subscribers, s)
    THEN [q EXCEPT !.subscribers = ListRemove(@, s)]
    ELSE q

\* get_history(count)
get_history(q, count) == Reverse(PySliceLast(q.history, count))

\* get_stats()
get_stats(q) ==
    [total_published |-> q.stats.total_published,
     total_subscribers |-> q.stats.total_subscribers,
     alerts_by_type |-> q.stats.alerts_by_type,
     current_subscribers |-> Len(q.subscribers),
     history_size |-> Len(q.history)]

\* clear_history()
clear_history(q) == [q EXCEPT !.history = <<>>]

-----------------------------------------------------------------------------
(* The state after construction                                            *)

\* Bounds of the model.
MaxTicks == 2
TickHours == 13
MaxDays == 2
MaxAdmin == 1
MaxHistory == 2
MaxPublish == 3
MaxCalls == 2
MaxEvents == 3
MaxStamped == 3
MaxTimers == 3
MaxSchedCalls == 3
WarmUpEvents == 10

\* Two subscribe() streams (consumers) and two producer threads.
Streams == {1, 2}
ThreadIds == {1, 2}

\* The tracker and the queue as the records the operators work on.
TR == [goals |-> goals, order |-> goal_order, current_date |-> current_date, progress |-> progress, event_history |-> event_history]
Q == [history |-> history, subscribers |-> subscribers, mailbox |-> mailbox, stats |-> aq_stats]

SetTR(tr) ==
    /\ goals' = tr.goals
    /\ goal_order' = tr.order
    /\ current_date' = tr.current_date
    /\ progress' = tr.progress
    /\ event_history' = tr.event_history

SetQ(q) ==
    /\ history' = q.history
    /\ subscribers' = q.subscribers
    /\ mailbox' = q.mailbox
    /\ aq_stats' = q.stats

NoCall == [op |-> "none"]
IdleGetter == [pc |-> "idle"]
IdleCaller == [pc |-> "idle", last |-> "none"]
TimerIds == 1..MaxTimers
NewStream == [pc |-> "new"]
IdleThread == [pc |-> "idle"]

\* A GoalTracker on day 1; AnomalyDetector(), AlertQueue(max_history=H) and
\* the empty WearableListenerState.
InitTracker(tr) ==
    /\ today = 1
    /\ goals = tr.goals
    /\ goal_order = tr.order
    /\ current_date = tr.current_date
    /\ progress = tr.progress
    /\ event_history = tr.event_history
    /\ goal_ret = NoCall

InitOther(H) ==
    /\ stats = EmptyDict
    /\ anomaly_history = <<>>
    /\ now = 0
    /\ recorded = [dt \in DataTypes |-> 0]
    /\ poisoned = {}
    /\ det_ret = NoCall
    /\ goal_obs = NoCall
    /\ achieved_today = EmptyDict
    /\ admin_calls = 0
    /\ max_history = H
    /\ history = NewAlertQueue(Streams).history
    /\ subscribers = NewAlertQueue(Streams).subscribers
    /\ mailbox = NewAlertQueue(Streams).mailbox
    /\ aq_stats = NewAlertQueue(Streams).stats
    /\ stream = [s \in Streams |-> NewStream]
    /\ received = [s \in Streams |-> <<>>]
    /\ published = <<>>
    /\ reg_at = [s \in Streams |-> 0]
    /\ preload = [s \in Streams |-> <<>>]
    /\ dropped_at = [s \in Streams |-> 0]
    /\ cleared = FALSE
    /\ aq_ret = NoCall
    /\ lock = 0
    /\ threads = [t \in ThreadIds |-> IdleThread]
    /\ completed = 0
    /\ event_count = 0
    /\ events_by_type = [dt \in {"heart_rate", "steps", "sleep", "workout", "stress"} |-> 0]
    /\ fitness_db = EmptyDict
    /\ latest_readings = EmptyDict
    /\ pending_events = <<>>
    /\ notifications = <<>>
    /\ dashboard_up = TRUE
    /\ ingest_obs = NoCall
    /\ getter = IdleGetter
    /\ returned = <<>>
    /\ stored_events = <<>>
    /\ _scheduler_running = FALSE
    /\ _scheduler_timer = 0
    /\ timers = [t \in TimerIds |-> "none"]
    /\ caller = IdleCaller
    /\ sched_calls = 0
    /\ generations = <<>>

InitWith(H) == InitTracker(NewGoalTracker(1)) /\ InitOther(H)

\* The module-level singletons: alert_queue = AlertQueue(), whose default
\* max_history the model scales to MaxHistory.
Init == InitWith(MaxHistory)

-----------------------------------------------------------------------------
(* The detector on its own: add_reading, check_anomaly, reset, the clock   *)

\* The values the feed records and the values it asks about, per data type.
AddValues(dt) ==
    CASE dt = "heart_rate" -> {70, 74}
      [] dt = "steps" -> {40, 60}
      [] dt = "sleep" -> {6, 8}
      [] dt = "stress" -> {3, 5}
      [] dt = "workout" -> {30, 40}
      [] OTHER -> {1, 3}

CheckValues(dt) ==
    CASE dt = "heart_rate" -> {40, 72, 77, 80, 120}
      [] dt = "steps" -> {50, 90, 200}
      [] dt = "sleep" -> {4, 7, 10, 12}
      [] dt = "stress" -> {4, 8, 9}
      [] dt = "workout" -> {35, 60}
      [] OTHER -> {2, 9}

\* The feed of this specification stays on one data type between resets,
\* stops one reading after the type's baseline is complete, pauses while a
\* detection is on record, and brings the values of a window in
\* nondecreasing order (the statistics depend on the retained values only,
\* not on their order).
FeedAllowed(dt, v) ==
    /\ DOMAIN stats \subseteq {dt}
    /\ anomaly_history = <<>>
    /\ dt \in DOMAIN stats /\ stats[dt].readings # <<>> =>
          /\ Len(stats[dt].readings) <= min_readings(dt)
          /\ v >= stats[dt].readings[Len(stats[dt].readings)][2]

\* check_anomaly is asked about the tracked type, or about any type of an
\* empty detector.
CheckAllowed(dt) == dt \in DOMAIN stats \/ stats = EmptyDict

DetAddReading ==
    /\ \E dt \in DataTypes : \E v \in AddValues(dt) :
          /\ FeedAllowed(dt, v)
          /\ stats' = add_reading(stats, dt, v, now, now)
          /\ recorded' = [recorded EXCEPT ![dt] = @ + 1]
          /\ det_ret' = [op |-> "add_reading", data_type |-> dt, value |-> v]
    /\ UNCHANGED <<anomaly_history, now, poisoned>>
    /\ UNCHANGED <<goalVars, queueVars, concVars, ingestVars, pendVars, schedVars>>

\* A slip of the check: it records the value before classifying it, as
\* check_and_track_anomaly does.
DetCheckAnomaly_tracks ==
    /\ \E dt \in DataTypes : \E v \in CheckValues(dt) :
          LET tracked == add_reading(stats, dt, v, now, now)
              r == check_anomaly(tracked, anomaly_history, dt, v)
          IN  /\ CheckAllowed(dt)
              /\ stats' = tracked
              /\ anomaly_history' = r.anomaly_history
              /\ det_ret' = [op |-> "check_anomaly", data_type |-> dt, value |-> v, result |-> r.result, recorded |-> recorded[dt]]
    /\ UNCHANGED <<now, recorded, poisoned>>
    /\ UNCHANGED <<goalVars, queueVars, concVars, ingestVars, pendVars, schedVars>>

DetCheckAnomaly ==
    /\ \E dt \in DataTypes : \E v \in CheckValues(dt) :
          LET r == check_anomaly(stats, anomaly_history, dt, v)
          IN  /\ CheckAllowed(dt)
              /\ anomaly_history' = r.anomaly_history
              /\ det_ret' = [op |-> "check_anomaly", data_type |-> dt, value |-> v, result |-> r.result, recorded |-> recorded[dt]]
    /\ UNCHANGED <<stats, now, recorded, poisoned>>
    /\ UNCHANGED <<goalVars, queueVars, concVars, ingestVars, pendVars, schedVars>>

DetReset ==
    /\ \E dt \in DataTypes \cup {""} :
          /\ dt # "" => dt \in DOMAIN stats
          /\ stats' = reset_stats(stats, dt)
          /\ anomaly_history' = reset_history(anomaly_history, dt)
          /\ recorded' = [d \in DataTypes |-> IF dt = "" \/ d = dt THEN 0 ELSE recorded[d]]
          /\ poisoned' = IF dt = "" THEN {} ELSE poisoned \ {dt}
          /\ det_ret' = [op |-> "reset", data_type |-> dt]
    /\ UNCHANGED now
    /\ UNCHANGED <<goalVars, queueVars, concVars, ingestVars, pendVars, schedVars>>

DetTick ==
    /\ now < MaxTicks * TickHours
    /\ now' = now + TickHours
    /\ UNCHANGED <<stats, anomaly_history, recorded, poisoned, det_ret>>
    /\ UNCHANGED <<goalVars, queueVars, concVars, ingestVars, pendVars, schedVars>>

NextDetector == DetAddReading \/ DetCheckAnomaly \/ DetReset \/ DetTick

SpecDetector == Init /\ [][NextDetector]_vars

\* The detector with its read accessors called between the other
\* operations.
AnomalyHistoryCounts == {1, 10}

\* get_anomaly_history(count): list(self._anomaly_history)[-count:]
get_anomaly_history(hist, count) == PySliceLast(hist, count)

DetGetBaseline ==
    /\ \E dt \in DataTypes :
          /\ CheckAllowed(dt)
          /\ det_ret' = [op |-> "get_baseline", data_type |-> dt, ret |-> get_baseline(stats, dt)]
    /\ UNCHANGED <<stats, anomaly_history, now, recorded, poisoned>>
    /\ UNCHANGED <<goalVars, queueVars, concVars, ingestVars, pendVars, schedVars>>

DetGetAllBaselines ==
    /\ det_ret' = [op |-> "get_all_baselines", ret |-> get_all_baselines(stats)]
    /\ UNCHANGED <<stats, anomaly_history, now, recorded, poisoned>>
    /\ UNCHANGED <<goalVars, queueVars, concVars, ingestVars, pendVars, schedVars>>

DetGetStats ==
    /\ det_ret' = [op |-> "get_stats", ret |-> detector_get_stats(stats, anomaly_history)]
    /\ UNCHANGED <<stats, anomaly_history, now, recorded, poisoned>>
    /\ UNCHANGED <<goalVars, queueVars, concVars, ingestVars, pendVars, schedVars>>

DetGetAnomalyHistory ==
    /\ \E count \in AnomalyHistoryCounts :
          det_ret' = [op |-> "get_anomaly_history", count |-> count,
                      ret |-> get_anomaly_history(anomaly_history, count)]
    /\ UNCHANGED <<stats, anomaly_history, now, recorded, poisoned>>
    /\ UNCHANGED <<goalVars, queueVars, concVars, ingestVars, pendVars, schedVars>>

NextDetectorReads ==
    \/ DetAddReading
    \/ DetCheckAnomaly
    \/ DetGetBaseline
    \/ DetGetAllBaselines
    \/ DetGetStats
    \/ DetGetAnomalyHistory
    \/ DetReset

SpecDetectorReads == Init /\ [][NextDetectorReads]_vars

\* The detector fed with readings that carry their own timestamp: taken
\* now, earlier within the window, or before the window.
StampedTypes == {"steps"}
StampedValues == {1, 2}
StampAges == {0, TickHours - 1, window_hours + 1}

StampedAddReading ==
    /\ \E dt \in StampedTypes : \E v \in StampedValues : \E age \in StampAges :
          /\ recorded[dt] < MaxStamped
          /\ stats' = add_reading(stats, dt, v, now - age, now)
          /\ recorded' = [recorded EXCEPT ![dt] = @ + 1]
          /\ det_ret' = [op |-> "add_reading", data_type |-> dt, value |-> v, timestamp |-> now - age]
    /\ UNCHANGED <<anomaly_history, now, poisoned>>
    /\ UNCHANGED <<goalVars, queueVars, concVars, ingestVars, pendVars, schedVars>>

NextStamped == StampedAddReading \/ DetTick

SpecStamped == Init /\ [][NextStamped]_vars

-----------------------------------------------------------------------------
(* Claims about the detector                                               *)

IsCheck == det_ret.op = "check_anomaly"

\* The last check asked about a value at or beyond a configured absolute
\* threshold of its data type.
BeyondCritical ==
    \/ HasCriticalHigh(det_ret.data_type) /\ det_ret.value >= critical_high(det_ret.data_type)
    \/ HasCriticalLow(det_ret.data_type) /\ det_ret.value <= critical_low(det_ret.data_type)

\* C1: a check_anomaly whose value is at or beyond a configured critical
\* threshold returns detected, severity critical and an infinite deviation,
\* whatever the sample window of the type holds.
C1_CriticalAlwaysFlagged ==
    IsCheck /\ BeyondCritical =>
        /\ det_ret.result.detected
        /\ det_ret.result.severity = "critical"
        /\ det_ret.result.deviation_sigma.inf

\* C1, its case: a critical verdict over a complete baseline with variance,
\* where the sigma rule would otherwise have decided.
C1_Witness ==
    /\ IsCheck /\ BeyondCritical
    /\ det_ret.data_type \in DOMAIN stats
    /\ stats[det_ret.data_type].count >= min_readings(det_ret.data_type)
    /\ stats[det_ret.data_type].std_sq[1] > 0
    /\ det_ret.result.severity = "critical"

\* C5 as stated: a check_anomaly made while fewer than min_readings samples
\* were recorded returns detected = false, for any value.
C5_FewReadingsNeverDetected ==
    IsCheck /\ det_ret.recorded < min_readings(det_ret.data_type) =>
        ~det_ret.result.detected

\* C5 amended: the same, for a value that crosses no critical threshold.
C5_FewReadingsNotDetectedUnlessCritical ==
    IsCheck /\ det_ret.recorded < min_readings(det_ret.data_type) /\ ~BeyondCritical =>
        ~det_ret.result.detected

\* C5, its case: an incomplete baseline that already has variance, and a
\* value the answer to which is "insufficient baseline".
C5_Witness ==
    /\ IsCheck /\ ~BeyondCritical
    /\ det_ret.recorded >= 2
    /\ det_ret.recorded < min_readings(det_ret.data_type)
    /\ stats[det_ret.data_type].std_sq[1] > 0
    /\ det_ret.result.message = "insufficient baseline"

\* The last check found the type's statistics holding at least min_readings
\* samples, and its value crosses no absolute threshold.
FullBaselineCheck ==
    /\ IsCheck /\ ~BeyondCritical
    /\ det_ret.data_type \in DOMAIN stats
    /\ stats[det_ret.data_type].count >= min_readings(det_ret.data_type)

\* |value - mean| / stddev >= sigma_threshold * num / den for the last check,
\* in integers: mean = S/n, stddev^2 = a/b, sigma_threshold = p/q.
SigmaAtLeast(num, den) ==
    LET rs == stats[det_ret.data_type]
        d == det_ret.value * rs.mean[2] - rs.mean[1]
        thr == sigma_threshold(det_ret.data_type)
    IN  d * d * rs.std_sq[2] * thr[2] * thr[2] * den * den
            >= thr[1] * thr[1] * num * num * rs.mean[2] * rs.mean[2] * rs.std_sq[1]

\* C16: for a value that crosses no absolute threshold, checked against
\* statistics of at least min_readings samples: no detection when the
\* standard deviation is 0; otherwise detected exactly when
\* |value - mean| / stddev >= sigma_threshold of the type, and a detection is
\* a warning exactly when the deviation is >= 1.5 * sigma_threshold, else info.
C16_SigmaRule ==
    FullBaselineCheck =>
        IF stats[det_ret.data_type].std_sq[1] = 0
        THEN ~det_ret.result.detected
        ELSE /\ det_ret.result.detected <=> SigmaAtLeast(1, 1)
             /\ det_ret.result.detected =>
                    det_ret.result.severity = IF SigmaAtLeast(3, 2) THEN "warning" ELSE "info"

\* C16, its case: a detection between sigma_threshold and 1.5 times it.
C16_Witness ==
    /\ FullBaselineCheck
    /\ stats[det_ret.data_type].std_sq[1] > 0
    /\ det_ret.result.detected
    /\ SigmaAtLeast(1, 1) /\ ~SigmaAtLeast(3, 2)
    /\ det_ret.result.severity = "info"

-----------------------------------------------------------------------------
(* The goal tracker on its own: its public methods and the calendar        *)

\* The data types the updates name: a default goal, a goal that can be
\* added, and a type no goal is defined for.
UpdateTypes == {"steps", "meditation", "heart_rate"}

\* The values the updates bring: below, at and above the type's target.
GoalValues(dt) ==
    CASE dt = "steps" -> {5000, 10500, 11000}
      [] dt = "meditation" -> {10}
      [] OTHER -> {72}

\* The goals add_goal is called with: a new data type, and a data type that
\* is already being tracked.
AddableGoals ==
    { GoalDefinition("Meditation", "meditation", 10, TRUE, 50),
      GoalDefinition("Daily Steps", "steps", 10000, TRUE, 60) }

RemovableTypes == {"steps", "meditation"}

\* The hours check_at_risk_goals is called at.
CheckHours == {12, 20}

\* The number of 'achieved' events counted for a data type.
Achieved(counts, dt) == IF dt \in DOMAIN counts THEN counts[dt] ELSE 0

\* What a call that makes the day check leaves in goal_obs: the rollover it
\* made, if it made one.
Observe(tr, call, data_type, after) ==
    IF tr.current_date # today
    THEN [op |-> "rollover", call |-> call, data_type |-> data_type, tracked |-> tr.current_date, after |-> after] @@ RolloverObserved(tr, today)
    ELSE NoCall

GoalUpdate ==
    /\ \E dt \in UpdateTypes : \E v \in GoalValues(dt) :
          LET r == update_progress(TR, dt, v, TRUE, today, today)
          IN  /\ SetTR(r.tracker)
              /\ goal_ret' = [op |-> "update_progress", data_type |-> dt, value |-> v, ret |-> r.ret]
              /\ goal_obs' = Observe(TR, "update_progress", dt, r.tracker.progress)
              /\ achieved_today' =
                    IF r.ret.event_type = "achieved"
                    THEN DictSet(achieved_today, dt, Achieved(achieved_today, dt) + 1)
                    ELSE achieved_today
    /\ UNCHANGED <<today, admin_calls>>
    /\ UNCHANGED <<detVars, queueVars, concVars, ingestVars, pendVars, schedVars>>

GoalCheckAtRisk ==
    /\ \E h \in CheckHours :
          LET r == check_at_risk_goals(TR, h, today)
          IN  /\ SetTR(r.tracker)
              /\ goal_ret' = [op |-> "check_at_risk_goals", hour |-> h, ret |-> r.ret]
              /\ goal_obs' = Observe(TR, "check_at_risk_goals", "", r.tracker.progress)
    /\ UNCHANGED <<today, achieved_today, admin_calls>>
    /\ UNCHANGED <<detVars, queueVars, concVars, ingestVars, pendVars, schedVars>>

GoalAccessor ==
    /\ LET r == get_all_progress(TR, today)
       IN  /\ SetTR(r.tracker)
           /\ goal_ret' = [op |-> "get_all_progress", ret |-> r.ret]
           /\ goal_obs' = Observe(TR, "get_all_progress", "", r.tracker.progress)
    /\ UNCHANGED <<today, achieved_today, admin_calls>>
    /\ UNCHANGED <<detVars, queueVars, concVars, ingestVars, pendVars, schedVars>>

GoalAddGoal ==
    /\ admin_calls < MaxAdmin
    /\ \E g \in AddableGoals :
          /\ SetTR(add_goal(TR, g, today))
          /\ goal_ret' = [op |-> "add_goal", data_type |-> g.data_type]
    /\ admin_calls' = admin_calls + 1
    /\ goal_obs' = NoCall
    /\ UNCHANGED <<today, achieved_today>>
    /\ UNCHANGED <<detVars, queueVars, concVars, ingestVars, pendVars, schedVars>>

GoalRemoveGoal ==
    /\ admin_calls < MaxAdmin
    /\ \E dt \in RemovableTypes :
          /\ SetTR(remove_goal(TR, dt))
          /\ goal_ret' = [op |-> "remove_goal", data_type |-> dt, ret |-> dt \in DOMAIN goals]
    /\ admin_calls' = admin_calls + 1
    /\ goal_obs' = NoCall
    /\ UNCHANGED <<today, achieved_today>>
    /\ UNCHANGED <<detVars, queueVars, concVars, ingestVars, pendVars, schedVars>>

\* reset() drops the tracked date and the progress, then makes the day check.
GoalReset ==
    /\ admin_calls < MaxAdmin
    /\ SetTR(reset(TR, today))
    /\ goal_ret' = [op |-> "reset"]
    /\ goal_obs' = Observe([TR EXCEPT !.current_date = 0, !.progress = EmptyDict], "reset", "", reset(TR, today).progress)
    /\ admin_calls' = admin_calls + 1
    /\ UNCHANGED <<today, achieved_today>>
    /\ UNCHANGED <<detVars, queueVars, concVars, ingestVars, pendVars, schedVars>>

\* Midnight: date.today() moves on; the tracker learns of it at its next call.
NewDay ==
    /\ today < MaxDays
    /\ today' = today + 1
    /\ achieved_today' = EmptyDict
    /\ UNCHANGED <<goals, goal_order, current_date, progress, event_history, goal_ret, goal_obs, admin_calls>>
    /\ UNCHANGED <<detVars, queueVars, concVars, ingestVars, pendVars, schedVars>>

NextGoals ==
    \/ GoalUpdate
    \/ GoalCheckAtRisk
    \/ GoalAccessor
    \/ GoalAddGoal
    \/ GoalRemoveGoal
    \/ GoalReset
    \/ NewDay

SpecGoals == Init /\ [][NextGoals]_vars

-----------------------------------------------------------------------------
(* A tracker built with one goal of the caller's: GoalTracker(goals=[g])   *)

\* The goals the tracker is built with: a target of zero and a positive
\* target, cumulative or point-in-time, reminder_threshold 0.5.
CustomTargets == {0, 2}

CustomGoals ==
    { GoalDefinition("Custom", "water", t, c, 50) : t \in CustomTargets, c \in BOOLEAN }

\* The values the updates bring: below zero, zero, below the positive
\* target, the target itself and more than the target.
CustomValues == {0 - 1, 0, 1, 2, 3}

\* The data type the updates name: the goal's.
CustomTypes == {"water"}

InitCustomGoal ==
    \E g \in CustomGoals :
        InitTracker(GoalTrackerWith(<<g>>, 1)) /\ InitOther(MaxHistory)

CustomUpdate ==
    /\ \E dt \in CustomTypes : \E v \in CustomValues : \E icu \in BOOLEAN :
          LET r == update_progress(TR, dt, v, icu, today, today)
          IN  /\ SetTR(r.tracker)
              /\ goal_ret' = [op |-> "update_progress", data_type |-> dt, value |-> v, is_cumulative_update |-> icu, ret |-> r.ret]
              /\ goal_obs' = Observe(TR, "update_progress", dt, r.tracker.progress)
              /\ achieved_today' =
                    IF r.ret.event_type = "achieved"
                    THEN DictSet(achieved_today, dt, Achieved(achieved_today, dt) + 1)
                    ELSE achieved_today
    /\ UNCHANGED <<today, admin_calls>>
    /\ UNCHANGED <<detVars, queueVars, concVars, ingestVars, pendVars, schedVars>>

NextCustomGoal ==
    \/ CustomUpdate
    \/ GoalCheckAtRisk
    \/ GoalAccessor
    \/ NewDay

SpecCustomGoal == InitCustomGoal /\ [][NextCustomGoal]_vars

-----------------------------------------------------------------------------
(* Claims about the goal tracker                                           *)

\* C2 as stated: within one calendar day at most one 'achieved' event is
\* returned for a goal data type, whatever sequence of update_progress,
\* check_at_risk_goals, accessors, add_goal, remove_goal and reset is made.
C2_AtMostOneAchievedPerDay ==
    \A dt \in DOMAIN achieved_today : achieved_today[dt] <= 1

\* A GoalProgress as the constructor leaves it.
IsFreshProgress(p) ==
    /\ p.current_value = 0
    /\ p.status = "not_started"
    /\ p.achieved_at = 0
    /\ ~p.notified_achieved
    /\ ~p.notified_at_risk

\* C10: a call that finds date.today() different from the tracked date marks
\* every goal of the tracked day that is not achieved as missed and gives
\* every configured goal a fresh progress (value 0, not_started, achieved_at
\* unset, both notified flags false) before it does its own work: an update
\* leaves the other goals fresh, an evening check reminds of every goal.
C10_RolloverArchivesAndResets ==
    goal_obs.op = "rollover" =>
        /\ goal_obs.tracked # 0 =>
              \A dt \in DOMAIN goal_obs.before :
                  goal_obs.archived[dt].status =
                      IF goal_obs.before[dt].status = "achieved"
                      THEN "achieved" ELSE "missed"
        /\ DOMAIN goal_obs.fresh = goal_obs.configured
        /\ \A dt \in goal_obs.configured :
              /\ IsFreshProgress(goal_obs.fresh[dt])
              /\ goal_obs.fresh[dt].goal = goals[dt]
        /\ goal_obs.call \in {"get_all_progress", "reset"} =>
              goal_obs.after = goal_obs.fresh
        /\ goal_obs.call = "update_progress" =>
              \A dt \in goal_obs.configured \ {goal_obs.data_type} :
                  goal_obs.after[dt] = goal_obs.fresh[dt]
        /\ goal_obs.call = "check_at_risk_goals" /\ goal_ret.hour >= 18 =>
              Len(goal_ret.ret) = Cardinality(goal_obs.configured)

\* C10, its case: an update on a new day, the day before having left an
\* achieved goal, a goal under way and a goal at risk.
C10_Witness ==
    /\ goal_obs.op = "rollover"
    /\ goal_obs.call = "update_progress"
    /\ goal_obs.tracked # 0
    /\ \E a, b, c \in DOMAIN goal_obs.before :
          /\ goal_obs.before[a].status = "achieved"
          /\ goal_obs.before[b].status = "in_progress"
          /\ goal_obs.before[c].status = "at_risk"
          /\ goal_obs.archived[b].status = "missed"

\* The step is a call of check_at_risk_goals (every call leaves its name in
\* goal_ret; midnight leaves goal_ret alone and moves the calendar).
IsAtRiskCall == goal_ret'.op = "check_at_risk_goals" /\ today' = today

\* progress_percent < reminder_threshold * 100, from the fields themselves.
PercentBelowReminder(p) ==
    IF p.goal.target = 0 \/ p.current_value > p.goal.target
    THEN 100 < p.goal.reminder_percent
    ELSE p.current_value * 100 < p.goal.reminder_percent * p.goal.target

\* C11: check_at_risk_goals called with current_hour < 18 returns the empty
\* list and, when the tracked date is today's, leaves every goal's status,
\* every notified_at_risk flag and the event history as they were.
C11_NoOpBeforeEvening ==
    [][IsAtRiskCall /\ goal_ret'.hour < 18 =>
          /\ goal_ret'.ret = <<>>
          /\ current_date = today =>
                /\ event_history' = event_history
                /\ DOMAIN progress' = DOMAIN progress
                /\ \A dt \in DOMAIN progress :
                      /\ progress'[dt].status = progress[dt].status
                      /\ progress'[dt].notified_at_risk = progress[dt].notified_at_risk]_vars

\* C11, its case: a call before 18h on an unchanged day that found a goal
\* short of its reminder threshold, not achieved and not yet reminded of.
C11_Witness ==
    /\ goal_ret.op = "check_at_risk_goals"
    /\ goal_ret.hour < 18
    /\ goal_obs = NoCall
    /\ current_date = today
    /\ \E dt \in DOMAIN progress :
          /\ progress[dt].status # "achieved"
          /\ ~progress[dt].notified_at_risk
          /\ PercentBelowReminder(progress[dt])

\* The 'at_risk' events of the history for a data type on a day.
AtRiskEvents(h, dt, day) ==
    {i \in 1..Len(h) : h[i].event_type = "at_risk" /\ h[i].data_type = dt /\ h[i].timestamp = day}

\* C12: while only update_progress, check_at_risk_goals and the accessors
\* are called, a goal gets at most one 'at_risk' event per calendar day; and
\* every 'at_risk' event comes from a check_at_risk_goals call with
\* current_hour >= 18, for a goal that was not achieved and whose
\* progress_percent was below reminder_threshold * 100.
C12_AtRiskOncePerDay ==
    /\ [](admin_calls = 0 =>
            \A i \in 1..Len(event_history) :
                Cardinality(AtRiskEvents(event_history, event_history[i].data_type, event_history[i].timestamp)) <= 1)
    /\ [][\A i \in (Len(event_history) + 1)..Len(event_history') :
             event_history'[i].event_type = "at_risk" =>
                 /\ IsAtRiskCall
                 /\ goal_ret'.hour >= 18
                 /\ LET p == _ensure_current_day(TR, today).progress[event_history'[i].data_type]
                    IN  /\ p.status # "achieved"
                        /\ PercentBelowReminder(p)]_vars

\* C12, its case: a check after 18h that returns nothing for a goal it has
\* reminded of earlier in the day, an update having come in between that
\* left the goal short of the threshold again.
C12_Witness ==
    /\ goal_ret.op = "check_at_risk_goals"
    /\ goal_ret.hour >= 18
    /\ goal_ret.ret = <<>>
    /\ admin_calls = 0
    /\ \E dt \in DOMAIN progress :
          /\ progress[dt].notified_at_risk
          /\ progress[dt].status = "not_started"
          /\ PercentBelowReminder(progress[dt])
          /\ Cardinality(AtRiskEvents(event_history, dt, today)) = 1

\* C13 as stated: every GoalProgress has 0 <= progress_percent <= 100 and
\* remaining >= 0, and a goal whose target is 0 has progress_percent = 100,
\* for any value update_progress is called with.
C13_PercentWithinBounds ==
    \A dt \in DOMAIN progress :
        LET pp == progress_percent(progress[dt])
        IN  /\ pp[2] > 0
            /\ pp[1] >= 0
            /\ pp[1] <= 100 * pp[2]
            /\ remaining(progress[dt]) >= 0
            /\ progress[dt].goal.target = 0 => pp[1] = 100 * pp[2]

\* C14 as stated: a goal that is achieved on the tracked day is still
\* achieved after any call made on that day.
C14_AchievedIsTerminal ==
    [][today' = today /\ current_date = today =>
          \A dt \in DOMAIN progress :
              progress[dt].status = "achieved" =>
                  /\ dt \in DOMAIN progress'
                  /\ progress'[dt].status = "achieved"]_vars

-----------------------------------------------------------------------------
(* The alert queue with its subscribe() generators, one call per step      *)

\* The history_count arguments of subscribe and the count of get_history.
HistoryCounts == {0, 1, MaxHistory}

\* AlertQueue(max_history=H), for an H that a mailbox can hold and for an H
\* larger than a mailbox.
InitQueue == \E H \in {QueueMaxsize, MaxHistory} : InitWith(H)

\* The producers of this specification publish their anomaly alerts before
\* their goal alerts (the queue treats the types alike but for the counters).
TypeAllowed(t) ==
    published # <<>> /\ published[Len(published)].alert_type = "goal_achieved" =>
        t = "goal_achieved"

\* publish(alert): the alert gets the next id; the mailboxes found full are
\* noted with the index of the alert that found them so.
QPublish ==
    /\ Len(published) < MaxPublish
    /\ \E t \in AlertTypes :
          LET alert == AutomationAlert(Len(published) + 1, t)
          IN  /\ TypeAllowed(t)
              /\ SetQ(publish(Q, alert, max_history))
              /\ published' = Append(published, alert)
    /\ dropped_at' = [s \in Streams |->
                         IF InList(subscribers, s) /\ QueueFull(mailbox[s])
                         THEN Len(published) + 1 ELSE dropped_at[s]]
    /\ aq_ret' = NoCall
    /\ completed' = completed + 1
    /\ UNCHANGED <<max_history, stream, received, reg_at, preload, cleared>>
    /\ UNCHANGED <<detVars, goalVars, lock, threads, ingestVars, pendVars, schedVars>>

\* The first __anext__ of a subscribe() generator: the mailbox is created and
\* registered and the history is preloaded; QueueFull raised by the preload
\* ends the generator before its try block is entered.
QSubscribe ==
    /\ \E s \in Streams : \E inc \in BOOLEAN : \E hc \in HistoryCounts :
          LET r == subscribe_register(Q, s, inc, hc)
          IN  /\ stream[s].pc = "new"
              /\ SetQ(r.queue)
              /\ stream' = [stream EXCEPT ![s].pc = IF r.error THEN "failed" ELSE "subscribed"]
              /\ reg_at' = [reg_at EXCEPT ![s] = Len(published)]
              /\ preload' = [preload EXCEPT ![s] = r.queue.mailbox[s]]
              /\ aq_ret' = [op |-> "subscribe", stream |-> s, include_history |-> inc, history_count |-> hc]
    /\ UNCHANGED <<max_history, received, published, dropped_at, cleared>>
    /\ UNCHANGED <<detVars, goalVars, concVars, ingestVars, pendVars, schedVars>>

\* alert = await queue.get(); yield alert
QNext ==
    /\ \E s \in Streams :
          /\ stream[s].pc = "subscribed"
          /\ mailbox[s] # <<>>
          /\ received' = [received EXCEPT ![s] = Append(@, Head(mailbox[s]))]
          /\ mailbox' = [mailbox EXCEPT ![s] = Tail(@)]
    /\ aq_ret' = NoCall
    /\ UNCHANGED <<max_history, history, subscribers, aq_stats, stream, published, reg_at, preload, dropped_at, cleared>>
    /\ UNCHANGED <<detVars, goalVars, concVars, ingestVars, pendVars, schedVars>>

\* The consumer goes away (cancellation or aclose): the finally block runs.
QClose ==
    /\ \E s \in Streams :
          /\ stream[s].pc = "subscribed"
          /\ SetQ(subscribe_finally(Q, s))
          /\ stream' = [stream EXCEPT ![s].pc = "closed"]
    /\ aq_ret' = NoCall
    /\ UNCHANGED <<max_history, received, published, reg_at, preload, dropped_at, cleared>>
    /\ UNCHANGED <<detVars, goalVars, concVars, ingestVars, pendVars, schedVars>>

QGetStats ==
    /\ aq_ret' = [op |-> "get_stats", ret |-> get_stats(Q), completed |-> completed]
    /\ UNCHANGED <<max_history, history, subscribers, mailbox, aq_stats, stream, received, published, reg_at, preload, dropped_at, cleared>>
    /\ UNCHANGED <<detVars, goalVars, concVars, ingestVars, pendVars, schedVars>>

QGetHistory ==
    /\ \E count \in HistoryCounts :
          aq_ret' = [op |-> "get_history", count |-> count, ret |-> get_history(Q, count), completed |-> completed]
    /\ UNCHANGED <<max_history, history, subscribers, mailbox, aq_stats, stream, received, published, reg_at, preload, dropped_at, cleared>>
    /\ UNCHANGED <<detVars, goalVars, concVars, ingestVars, pendVars, schedVars>>

QClearHistory ==
    /\ ~cleared
    /\ history # <<>>
    /\ SetQ(clear_history(Q))
    /\ cleared' = TRUE
    /\ aq_ret' = NoCall
    /\ UNCHANGED <<max_history, stream, received, published, reg_at, preload, dropped_at>>
    /\ UNCHANGED <<detVars, goalVars, concVars, ingestVars, pendVars, schedVars>>

NextQueue ==
    \/ QPublish
    \/ QSubscribe
    \/ QNext
    \/ QClose
    \/ QClearHistory

SpecQueue == InitQueue /\ [][NextQueue]_vars

-----------------------------------------------------------------------------
(* The alert queue under threads: publish one statement per step, the      *)
(* calls of the event loop (subscribe, the finally block, get_stats,       *)
(* get_history) each as one locked block, the consumers' reads unlocked    *)

\* A slip of the lock: it lets everybody in.
LockFree_ignored(l) == TRUE

\* threading.Lock: acquire succeeds when nobody holds the lock.
LockFree(l) == l = 0

\* The publish calls begun so far.
Started == completed + Cardinality({t \in ThreadIds : threads[t].pc # "idle"})

\* The alerts a thread publishes: thread 1 is the anomaly producer, the
\* others are goal producers.
ThreadType(t) == IF t = 1 THEN "anomaly_detected" ELSE "goal_achieved"

\* with self._lock: -- thread t enters publish(alert)
TAcquire(t) ==
    /\ threads[t].pc = "idle"
    /\ Started < MaxCalls
    /\ LockFree(lock)
    /\ lock' = t
    /\ threads' = [threads EXCEPT ![t] = [pc |-> "append", alert |-> AutomationAlert(Started + 1, ThreadType(t)), total |-> 0, i |-> 1, dead |-> <<>>]]
    /\ UNCHANGED completed
    /\ UNCHANGED <<detVars, goalVars, queueVars, ingestVars, pendVars, schedVars>>

\* self._history.append(alert)
TAppend(t) ==
    /\ threads[t].pc = "append"
    /\ history' = DequeAppend(history, threads[t].alert, max_history)
    /\ published' = Append(published, threads[t].alert)
    /\ threads' = [threads EXCEPT ![t].pc = "read_total"]
    /\ UNCHANGED <<max_history, subscribers, mailbox, aq_stats, stream, received, reg_at, preload, dropped_at, cleared, aq_ret>>
    /\ UNCHANGED <<lock, completed>>
    /\ UNCHANGED <<detVars, goalVars, ingestVars, pendVars, schedVars>>

\* self._stats["total_published"] += 1, the read
TReadTotal(t) ==
    /\ threads[t].pc = "read_total"
    /\ threads' = [threads EXCEPT ![t].pc = "write_total", ![t].total = aq_stats.total_published]
    /\ UNCHANGED <<lock, completed>>
    /\ UNCHANGED <<detVars, goalVars, queueVars, ingestVars, pendVars, schedVars>>

\* self._stats["total_published"] += 1, the write; then alerts_by_type
TWriteTotal(t) ==
    /\ threads[t].pc = "write_total"
    /\ aq_stats' = [aq_stats EXCEPT !.total_published = threads[t].total + 1,
                                    !.alerts_by_type = CountType(@, threads[t].alert.alert_type)]
    /\ threads' = [threads EXCEPT ![t].pc = "notify"]
    /\ UNCHANGED <<max_history, history, subscribers, mailbox, stream, received, published, reg_at, preload, dropped_at, cleared, aq_ret>>
    /\ UNCHANGED <<lock, completed>>
    /\ UNCHANGED <<detVars, goalVars, ingestVars, pendVars, schedVars>>

\* for queue in self._subscribers: put_nowait, or note the full mailbox
TNotify(t) ==
    /\ threads[t].pc = "notify"
    /\ threads[t].i <= Len(subscribers)
    /\ LET s == subscribers[threads[t].i]
       IN  IF QueueFull(mailbox[s])
           THEN /\ threads' = [threads EXCEPT ![t].i = @ + 1, ![t].dead = Append(@, s)]
                /\ dropped_at' = [dropped_at EXCEPT ![s] = threads[t].alert.id]
                /\ UNCHANGED mailbox
           ELSE /\ threads' = [threads EXCEPT ![t].i = @ + 1]
                /\ mailbox' = [mailbox EXCEPT ![s] = Append(@, threads[t].alert)]
                /\ UNCHANGED dropped_at
    /\ UNCHANGED <<max_history, history, subscribers, aq_stats, stream, received, published, reg_at, preload, cleared, aq_ret>>
    /\ UNCHANGED <<lock, completed>>
    /\ UNCHANGED <<detVars, goalVars, ingestVars, pendVars, schedVars>>

\* The dead subscribers are removed, the lock is released, publish returns.
TRelease(t) ==
    /\ threads[t].pc = "notify"
    /\ threads[t].i > Len(subscribers)
    /\ subscribers' = RemoveDead(subscribers, threads[t].dead)
    /\ threads' = [threads EXCEPT ![t] = IdleThread]
    /\ lock' = 0
    /\ completed' = completed + 1
    /\ UNCHANGED <<max_history, history, mailbox, aq_stats, stream, received, published, reg_at, preload, dropped_at, cleared, aq_ret>>
    /\ UNCHANGED <<detVars, goalVars, ingestVars, pendVars, schedVars>>

\* A slip of subscribe: the registration and the snapshot are made without
\* the lock, in the middle of a publish.
LSubscribe_unlocked == QSubscribe

\* The locked blocks of the event loop's calls.
LSubscribe == LockFree(lock) /\ QSubscribe
LClose == LockFree(lock) /\ QClose
LGetStats == LockFree(lock) /\ QGetStats
LGetHistory == LockFree(lock) /\ QGetHistory

NextQueueConc ==
    \/ \E t \in ThreadIds : TAcquire(t)
    \/ \E t \in ThreadIds : TAppend(t)
    \/ \E t \in ThreadIds : TReadTotal(t)
    \/ \E t \in ThreadIds : TWriteTotal(t)
    \/ \E t \in ThreadIds : TNotify(t)
    \/ \E t \in ThreadIds : TRelease(t)
    \/ LSubscribe
    \/ LClose
    \/ QNext
    \/ LGetStats
    \/ LGetHistory

SpecQueueConc == InitQueue /\ [][NextQueueConc]_vars

-----------------------------------------------------------------------------
(* The ingest path (src/src/wearable_listener/lifecycle.py): one inbound   *)
(* event per step, through the detector, the tracker and the dashboard     *)

\* check_and_track_anomaly(data_type, value) at time clock: add_reading
\* first, then check_anomaly; the result is None unless detected.
check_and_track_anomaly(st, hist, data_type, value, clock) ==
    LET st1 == add_reading(st, data_type, value, clock, clock)
        r == check_anomaly(st1, hist, data_type, value)
    IN  [stats |-> st1, anomaly_history |-> r.anomaly_history,
         is_anomaly |-> r.result.detected,
         anomaly_result |-> IF r.result.detected THEN r.result ELSE [detected |-> FALSE]]

\* A slip of the POST: alert_type is left out of the query, and the route
\* falls back on its default, anomaly_detected.
publish_alert_to_dashboard_default(q, alert_type, up) ==
    IF up
    THEN LET alert == AutomationAlert(Len(q.published) + 1, "anomaly_detected")
         IN  [queue |-> publish(q.queue, alert, max_history),
              published |-> Append(q.published, alert)]
    ELSE q

\* publish_alert_to_dashboard: the POST reaches the test route, which
\* publishes an alert of that type on the queue, when the dashboard is up;
\* q is the pair of the queue and the published sequence.
publish_alert_to_dashboard(q, alert_type, up) ==
    IF up
    THEN LET alert == AutomationAlert(Len(q.published) + 1, alert_type)
         IN  [queue |-> publish(q.queue, alert, max_history),
              published |-> Append(q.published, alert)]
    ELSE q

\* update_fitness_database: today's row takes the value in the type's column.
update_fitness_database(db, data_type, value) ==
    LET column_mapping == [heart_rate |-> "avg_heart_rate", steps |-> "steps", sleep |-> "sleep_hours", workout |-> "workout_type"]
    IN  IF data_type \in DOMAIN column_mapping
        THEN DictSet(db, column_mapping[data_type], value)
        ELSE db

\* A slip of the escalation: the severity wins whatever the event said.
Escalate_any(alert_level, anomaly) ==
    IF anomaly.detected /\ anomaly.severity = "critical"
    THEN "critical"
    ELSE IF anomaly.detected /\ anomaly.severity = "warning" /\ alert_level = "normal"
    THEN "elevated"
    ELSE alert_level

\* The alert level after the escalation by an anomaly's severity.
Escalate(alert_level, anomaly) ==
    IF anomaly.detected /\ anomaly.severity = "critical" /\ alert_level = "normal"
    THEN "critical"
    ELSE IF anomaly.detected /\ anomaly.severity = "warning" /\ alert_level = "normal"
    THEN "elevated"
    ELSE alert_level

\* A slip of the store: the event is queued twice.
store_pending_event_twice(pending, event) == Append(Append(pending, event), event)

\* store_pending_event(event) with the agent context set, as it is once
\* initialize_wearable_listener has run.
store_pending_event(pending, event) == Append(pending, event)

\* write_health_notification, called for the critical and elevated levels.
write_health_notification(notes, event, alert_level) ==
    IF alert_level \in {"critical", "elevated"}
    THEN Append(notes, [data_type |-> event.data_type, level |-> alert_level])
    ELSE notes

\* What the baseline of a data type is made of: count, mean and variance.
BaselineOf(st, data_type, clock) ==
    IF data_type \notin DOMAIN st
    THEN [count |-> 0, mean |-> <<0, 1>>, std_sq |-> <<0, 1>>]
    ELSE LET rs == _recalculate_stats(_prune_old_readings(st[data_type], clock))
         IN  [count |-> rs.count, mean |-> rs.mean, std_sq |-> rs.std_sq]

\* The events of the feed: a data type, a value that parses as a number or
\* one that does not, and the device's own alert level.
IngestTypes == {"sleep", "heart_rate"}

IngestValues(dt) ==
    CASE dt = "sleep" -> {3, 8}
      [] OTHER -> {72, 150}

AlertLevels == {"normal", "elevated"}

\* process_wearable_data(event, agent_context) for an event whose value is a
\* number: detection, escalation, goal progress, the alerts, the fitness
\* row, the latest reading, the pending event, the notification.
ProcessNumeric(event) ==
    LET dt == event.data_type
        v == event.value
        a == check_and_track_anomaly(stats, anomaly_history, dt, v, now)
        q0 == [queue |-> Q, published |-> published]
        q1 == IF a.is_anomaly
              THEN publish_alert_to_dashboard(q0, "anomaly_detected", dashboard_up)
              ELSE q0
        alert_level == Escalate(event.alert_level, a.anomaly_result)
        g == update_progress(TR, dt, v, TRUE, today, today)
        q2 == IF g.ret.event_type # "None"
              THEN publish_alert_to_dashboard(q1, "goal_achieved", dashboard_up)
              ELSE q1
        enriched == [event |-> event, anomaly |-> a.anomaly_result, goal_event |-> g.ret]
    IN  /\ stats' = a.stats
        /\ anomaly_history' = a.anomaly_history
        /\ recorded' = IF dt \in DOMAIN recorded THEN [recorded EXCEPT ![dt] = @ + 1] ELSE recorded
        /\ UNCHANGED poisoned
        /\ det_ret' = [op |-> "check_and_track_anomaly", data_type |-> dt, value |-> v, is_anomaly |-> a.is_anomaly]
        /\ SetTR(g.tracker)
        /\ goal_ret' = [op |-> "update_progress", data_type |-> dt, value |-> v, ret |-> g.ret]
        /\ goal_obs' = Observe(TR, "update_progress", dt, g.tracker.progress)
        /\ achieved_today' =
              IF g.ret.event_type = "achieved"
              THEN DictSet(achieved_today, dt, Achieved(achieved_today, dt) + 1)
              ELSE achieved_today
        /\ SetQ(q2.queue)
        /\ published' = q2.published
        /\ completed' = completed + Len(q2.published) - Len(published)
        /\ fitness_db' = update_fitness_database(fitness_db, dt, v)
        /\ latest_readings' = DictSet(latest_readings, dt,
              [value |-> v, alert_level |-> alert_level,
               baseline |-> get_baseline(a.stats, dt),
               anomaly |-> a.anomaly_result, goal_progress |-> g.ret])
        /\ pending_events' = store_pending_event(pending_events, enriched)
        /\ notifications' = write_health_notification(notifications, event, alert_level)
        /\ ingest_obs' = [op |-> "process_wearable_data", numeric |-> TRUE,
                          data_type |-> dt, value |-> v,
                          prior |-> BaselineOf(stats, dt, now),
                          used |-> BaselineOf(a.stats, dt, now),
                          is_anomaly |-> a.is_anomaly, alert_level |-> alert_level,
                          incoming |-> event.alert_level,
                          severity |-> IF a.is_anomaly THEN a.anomaly_result.severity ELSE "none"]

\* process_wearable_data for an event whose value does not parse: no
\* detection and no goal update; the event is stored as it came.
ProcessUnparsed(event) ==
    /\ pending_events' = store_pending_event(pending_events, [event |-> event, anomaly |-> [detected |-> FALSE], goal_event |-> NoEvent])
    /\ notifications' = write_health_notification(notifications, event, event.alert_level)
    /\ ingest_obs' = [op |-> "process_wearable_data", numeric |-> FALSE, data_type |-> event.data_type, alert_level |-> event.alert_level,
                      incoming |-> event.alert_level, severity |-> "none"]
    /\ UNCHANGED <<stats, anomaly_history, recorded, poisoned, det_ret>>
    /\ UNCHANGED <<goals, goal_order, current_date, progress, event_history, goal_ret, goal_obs, achieved_today>>
    /\ UNCHANGED <<history, subscribers, mailbox, aq_stats, published, completed>>
    /\ UNCHANGED <<fitness_db, latest_readings>>

\* process_wearable_data for an event whose value is a float that is not
\* finite (NaN, Infinity, 1e999), or that finds such a value in the window of
\* its data type: add_reading appends the sample and statistics.stdev
\* raises over the two or more samples (CPython 3.11); the exception leaves
\* process_wearable_data at check_and_track_anomaly and on_message logs it.
\* The statistics of such a window are not modelled further: until the
\* value leaves the window every add_reading of the type raises before
\* anything reads them.
ProcessAborted(event) ==
    /\ poisoned' = poisoned \cup {event.data_type}
    /\ ingest_obs' = [op |-> "on_message_error", data_type |-> event.data_type, finite |-> event.finite, value |-> event.value, incoming |-> event.alert_level]
    /\ UNCHANGED <<stats, anomaly_history, recorded, det_ret>>
    /\ UNCHANGED <<goals, goal_order, current_date, progress, event_history, goal_ret, goal_obs, achieved_today>>
    /\ UNCHANGED <<history, subscribers, mailbox, aq_stats, published, completed>>
    /\ UNCHANGED <<fitness_db, latest_readings, pending_events, notifications>>

\* Whether add_reading raises for the event: its window would hold two or
\* more samples, one of them not finite.
AddReadingRaises(event) ==
    \/ event.data_type \in poisoned
    \/ /\ ~event.finite
       /\ event.data_type \in DOMAIN stats
       /\ stats[event.data_type].count >= 1

\* WearableDataHandler.on_message for one event: the counters, then
\* process_wearable_data, whose exceptions it logs.
Deliver(event) ==
    /\ event_count' = event_count + 1
    /\ events_by_type' = IF event.data_type \in DOMAIN events_by_type
                         THEN [events_by_type EXCEPT ![event.data_type] = @ + 1]
                         ELSE events_by_type
    /\ IF ~event.numeric THEN ProcessUnparsed(event)
       ELSE IF AddReadingRaises(event) THEN ProcessAborted(event)
       ELSE ProcessNumeric(event)
    /\ UNCHANGED <<now, today, admin_calls>>
    /\ UNCHANGED <<max_history, stream, received, reg_at, preload, dropped_at, cleared, aq_ret>>
    /\ UNCHANGED <<lock, threads, dashboard_up>>
    /\ UNCHANGED <<pendVars, schedVars>>

\* The feed of mixed events: finite values and values that do not parse.
OnMessage ==
    /\ event_count < MaxEvents
    /\ \E dt \in IngestTypes : \E l \in AlertLevels : \E numeric \in BOOLEAN :
       \E v \in (IF numeric THEN IngestValues(dt) ELSE {0}) :
          Deliver([data_type |-> dt, numeric |-> numeric, finite |-> TRUE, value |-> v, alert_level |-> l])

\* get_pending_events(): the agent takes the pending events and clears them.
GetPendingEvents ==
    /\ pending_events # <<>>
    /\ pending_events' = <<>>
    /\ UNCHANGED <<event_count, events_by_type, fitness_db, latest_readings, notifications, dashboard_up, ingest_obs>>
    /\ UNCHANGED <<detVars, goalVars, queueVars, concVars, pendVars, schedVars>>

\* The dashboard API goes down or comes back.
DashboardChange ==
    /\ dashboard_up' = ~dashboard_up
    /\ UNCHANGED <<event_count, events_by_type, fitness_db, latest_readings, pending_events, notifications, ingest_obs>>
    /\ UNCHANGED <<detVars, goalVars, queueVars, concVars, pendVars, schedVars>>

NextIngest == OnMessage \/ GetPendingEvents \/ DashboardChange

SpecIngest == Init /\ [][NextIngest]_vars

\* A feed of stress readings: a steady run of the same reading first, the
\* agent polling after each, then readings of any kind: a number, a float
\* that is not finite ("NaN") offered once the window has samples, or a
\* text that does not parse, at any of the three alert levels.
StressLevels == {"normal", "elevated", "critical"}
StressValues == {5, 9}
StressKinds == {"number", "nan", "text"}

WarmUp ==
    /\ event_count < WarmUpEvents
    /\ pending_events = <<>>
    /\ Deliver([data_type |-> "stress", numeric |-> TRUE, finite |-> TRUE, value |-> 3, alert_level |-> "normal"])

StressMessage ==
    /\ event_count >= WarmUpEvents
    /\ event_count < WarmUpEvents + MaxEvents
    /\ \E l \in StressLevels : \E kind \in StressKinds :
       \E v \in (IF kind = "number" THEN StressValues ELSE {0}) :
          Deliver([data_type |-> "stress", numeric |-> kind # "text", finite |-> kind # "nan", value |-> v, alert_level |-> l])

NextIngestStress == WarmUp \/ StressMessage \/ GetPendingEvents

SpecIngestStress == Init /\ [][NextIngestStress]_vars

\* The pending events between two threads, one step per statement: the
\* worker thread of the message receiver stores events, the agent's thread
\* collects them. Nothing guards the list; each list operation on its own
\* is atomic under the interpreter lock.

\* store_pending_event(event) on the worker thread.
PendStore ==
    /\ Len(stored_events) < MaxEvents
    /\ \E dt \in IngestTypes :
          LET event == [event_id |-> Len(stored_events) + 1, data_type |-> dt]
          IN  /\ pending_events' = store_pending_event(pending_events, event)
              /\ stored_events' = Append(stored_events, event)
    /\ UNCHANGED <<getter, returned>>
    /\ UNCHANGED <<event_count, events_by_type, fitness_db, latest_readings, notifications, dashboard_up, ingest_obs>>
    /\ UNCHANGED <<detVars, goalVars, queueVars, concVars, schedVars>>

\* get_pending_events, first statement: events = pending_events.copy()
PendCopy ==
    /\ getter.pc = "idle"
    /\ Len(returned) < MaxCalls
    /\ getter' = [pc |-> "clear", events |-> pending_events]
    /\ UNCHANGED <<returned, stored_events>>
    /\ UNCHANGED <<event_count, events_by_type, fitness_db, latest_readings, pending_events, notifications, dashboard_up, ingest_obs>>
    /\ UNCHANGED <<detVars, goalVars, queueVars, concVars, schedVars>>

\* get_pending_events, the rest: pending_events.clear(); return events
PendClear ==
    /\ getter.pc = "clear"
    /\ pending_events' = <<>>
    /\ returned' = Append(returned, getter.events)
    /\ getter' = IdleGetter
    /\ UNCHANGED stored_events
    /\ UNCHANGED <<event_count, events_by_type, fitness_db, latest_readings, notifications, dashboard_up, ingest_obs>>
    /\ UNCHANGED <<detVars, goalVars, queueVars, concVars, schedVars>>

NextPending == PendStore \/ PendCopy \/ PendClear

SpecPending == Init /\ [][NextPending]_vars

-----------------------------------------------------------------------------
(* The consumers of the alert queue on their event loop. A consumer that   *)
(* finds its mailbox empty is suspended on the future of queue.get();      *)
(* put_nowait resolves the future, which schedules the consumer with       *)
(* loop.call_soon. Called on the loop's own thread that is enough; called  *)
(* from another thread (asyncio.Queue is not thread-safe) the loop is not  *)
(* woken: if it sleeps in its selector the consumer stays where it is      *)
(* until something else wakes the loop.                                    *)

\* The first __anext__ of a subscribe() generator, up to its first get().
WSubscribe ==
    /\ \E s \in Streams : \E inc \in BOOLEAN :
          LET r == subscribe_register(Q, s, inc, 1)
          IN  /\ stream[s].pc = "new"
              /\ SetQ(r.queue)
              /\ stream' = [stream EXCEPT ![s].pc = IF r.error THEN "failed" ELSE "subscribed"]
              /\ reg_at' = [reg_at EXCEPT ![s] = Len(published)]
              /\ preload' = [preload EXCEPT ![s] = r.queue.mailbox[s]]
              /\ aq_ret' = [op |-> "subscribe", stream |-> s, include_history |-> inc, history_count |-> 1]
    /\ UNCHANGED <<max_history, received, published, dropped_at, cleared>>
    /\ UNCHANGED <<detVars, goalVars, concVars, ingestVars, pendVars, schedVars>>

\* alert = await queue.get(): the head of the mailbox is yielded, or the
\* consumer is suspended on an empty mailbox.
WGet(s) ==
    /\ stream[s].pc = "subscribed"
    /\ IF mailbox[s] # <<>>
       THEN /\ received' = [received EXCEPT ![s] = Append(@, Head(mailbox[s]))]
            /\ mailbox' = [mailbox EXCEPT ![s] = Tail(@)]
            /\ UNCHANGED stream
       ELSE /\ stream' = [stream EXCEPT ![s].pc = "suspended"]
            /\ UNCHANGED <<received, mailbox>>
    /\ aq_ret' = NoCall
    /\ UNCHANGED <<max_history, history, subscribers, aq_stats, published, reg_at, preload, dropped_at, cleared>>
    /\ UNCHANGED <<detVars, goalVars, concVars, ingestVars, pendVars, schedVars>>

\* The loop runs the callback that call_soon scheduled: the consumer takes
\* the alert that resolved its future and yields it.
WResume(s) ==
    /\ stream[s].pc = "ready"
    /\ received' = [received EXCEPT ![s] = Append(@, Head(mailbox[s]))]
    /\ mailbox' = [mailbox EXCEPT ![s] = Tail(@)]
    /\ stream' = [stream EXCEPT ![s].pc = "subscribed"]
    /\ aq_ret' = NoCall
    /\ UNCHANGED <<max_history, history, subscribers, aq_stats, published, reg_at, preload, dropped_at, cleared>>
    /\ UNCHANGED <<detVars, goalVars, concVars, ingestVars, pendVars, schedVars>>

\* Where publish leaves the consumers: one that was suspended and was handed
\* the alert is scheduled, and either the loop is awake to run it or not.
AfterPublish(mb, awake) ==
    [s \in Streams |->
        IF stream[s].pc = "suspended" /\ mb[s] # <<>>
        THEN [stream[s] EXCEPT !.pc = IF awake THEN "ready" ELSE "stranded"]
        ELSE IF stream[s].pc = "stranded" /\ awake
        THEN [stream[s] EXCEPT !.pc = "ready"]
        ELSE stream[s]]

\* publish(alert) in thread from_thread: the loop's own (a route handler, so
\* the loop is awake) or another one (the loop may be asleep).
WPublish(from_thread) ==
    /\ Len(published) < MaxPublish
    /\ \E t \in AlertTypes : \E awake \in (IF from_thread = "loop" THEN {TRUE} ELSE BOOLEAN) :
          LET alert == AutomationAlert(Len(published) + 1, t)
              q == publish(Q, alert, max_history)
          IN  /\ SetQ(q)
              /\ published' = Append(published, alert)
              /\ stream' = AfterPublish(q.mailbox, awake)
    /\ dropped_at' = [s \in Streams |->
                         IF InList(subscribers, s) /\ QueueFull(mailbox[s])
                         THEN Len(published) + 1 ELSE dropped_at[s]]
    /\ aq_ret' = NoCall
    /\ completed' = completed + 1
    /\ UNCHANGED <<max_history, received, reg_at, preload, cleared>>
    /\ UNCHANGED <<detVars, goalVars, lock, threads, ingestVars, pendVars, schedVars>>

\* Something else wakes the loop (a request, a timer): it runs what was
\* scheduled behind its back.
WLoopWakes ==
    /\ \E s \in Streams : stream[s].pc = "stranded"
    /\ stream' = [s \in Streams |->
                     IF stream[s].pc = "stranded"
                     THEN [stream[s] EXCEPT !.pc = "ready"] ELSE stream[s]]
    /\ aq_ret' = NoCall
    /\ UNCHANGED <<max_history, history, subscribers, mailbox, aq_stats, received, published, reg_at, preload, dropped_at, cleared>>
    /\ UNCHANGED <<detVars, goalVars, concVars, ingestVars, pendVars, schedVars>>

NextWake ==
    \/ WSubscribe
    \/ \E s \in Streams : WGet(s)
    \/ \E s \in Streams : WResume(s)
    \/ WPublish("loop")
    \/ WPublish("other")
    \/ WLoopWakes

\* The consumers keep iterating and the loop runs what it knows to be
\* ready; nothing obliges a publish or another wake-up to happen.
SpecWake ==
    /\ Init
    /\ [][NextWake]_vars
    /\ \A s \in Streams : WF_vars(WGet(s)) /\ WF_vars(WResume(s))

-----------------------------------------------------------------------------
(* The report scheduler (src/src/automation/scheduler.py): start_scheduler *)
(* and stop_scheduler called one after the other on the event loop, the    *)
(* callbacks each in the thread of its threading.Timer, one step per       *)
(* statement                                                               *)

\* A timer stands at: "none" (not built), "created" (built, not started),
\* "pending" (started, waiting for its interval), "cancelled", and then,
\* its interval over, at a position of run_and_reschedule: "check", "run",
\* "generating", "schedule_check", "schedule_create", "schedule_start",
\* "done".
FreshTimers == {t \in TimerIds : timers[t] = "none"}
NextTimer == CHOOSE t \in FreshTimers : \A u \in FreshTimers : t <= u

\* threading.Timer.cancel(): stops a timer that has not fired yet.
TimerCancel(tm, t) ==
    IF tm[t] \in {"created", "pending"} THEN [tm EXCEPT ![t] = "cancelled"] ELSE tm

\* self._scheduler_timer.start(), on whatever timer the attribute holds:
\* None has no start (AttributeError), a timer already started raises
\* RuntimeError, a cancelled one ends at once without calling back.
TimerStart(tm, t) ==
    IF t # 0 /\ tm[t] = "created" THEN [tm EXCEPT ![t] = "pending"] ELSE tm

\* start_scheduler: if self._scheduler_running: return
StartBegin ==
    /\ caller.pc = "idle"
    /\ sched_calls < MaxSchedCalls
    /\ sched_calls' = sched_calls + 1
    /\ caller' = [pc |-> IF _scheduler_running THEN "idle" ELSE "start_set", last |-> "start"]
    /\ UNCHANGED <<_scheduler_running, _scheduler_timer, timers, generations>>
    /\ UNCHANGED <<detVars, goalVars, queueVars, concVars, ingestVars, pendVars>>

\* self._scheduler_running = True
StartSet ==
    /\ caller.pc = "start_set"
    /\ _scheduler_running' = TRUE
    /\ caller' = [caller EXCEPT !.pc = "start_check"]
    /\ UNCHANGED <<_scheduler_timer, timers, sched_calls, generations>>
    /\ UNCHANGED <<detVars, goalVars, queueVars, concVars, ingestVars, pendVars>>

\* _schedule_next: if not self._scheduler_running: return
StartCheck ==
    /\ caller.pc = "start_check"
    /\ caller' = [caller EXCEPT !.pc = IF _scheduler_running THEN "start_create" ELSE "idle"]
    /\ UNCHANGED <<_scheduler_running, _scheduler_timer, timers, sched_calls, generations>>
    /\ UNCHANGED <<detVars, goalVars, queueVars, concVars, ingestVars, pendVars>>

\* self._scheduler_timer = threading.Timer(interval_seconds, run_and_reschedule)
StartCreate ==
    /\ caller.pc = "start_create"
    /\ FreshTimers # {}
    /\ timers' = [timers EXCEPT ![NextTimer] = "created"]
    /\ _scheduler_timer' = NextTimer
    /\ caller' = [caller EXCEPT !.pc = "start_start"]
    /\ UNCHANGED <<_scheduler_running, sched_calls, generations>>
    /\ UNCHANGED <<detVars, goalVars, queueVars, concVars, ingestVars, pendVars>>

\* self._scheduler_timer.start()
StartStart ==
    /\ caller.pc = "start_start"
    /\ timers' = TimerStart(timers, _scheduler_timer)
    /\ caller' = [caller EXCEPT !.pc = "idle"]
    /\ UNCHANGED <<_scheduler_running, _scheduler_timer, sched_calls, generations>>
    /\ UNCHANGED <<detVars, goalVars, queueVars, concVars, ingestVars, pendVars>>

\* stop_scheduler: self._scheduler_running = False
StopBegin ==
    /\ caller.pc = "idle"
    /\ sched_calls < MaxSchedCalls
    /\ sched_calls' = sched_calls + 1
    /\ _scheduler_running' = FALSE
    /\ caller' = [pc |-> "stop_test", last |-> "stop"]
    /\ UNCHANGED <<_scheduler_timer, timers, generations>>
    /\ UNCHANGED <<detVars, goalVars, queueVars, concVars, ingestVars, pendVars>>

\* if self._scheduler_timer:
StopTest ==
    /\ caller.pc = "stop_test"
    /\ caller' = [caller EXCEPT !.pc = IF _scheduler_timer # 0 THEN "stop_cancel" ELSE "idle"]
    /\ UNCHANGED <<_scheduler_running, _scheduler_timer, timers, sched_calls, generations>>
    /\ UNCHANGED <<detVars, goalVars, queueVars, concVars, ingestVars, pendVars>>

\* self._scheduler_timer.cancel()
StopCancel ==
    /\ caller.pc = "stop_cancel"
    /\ timers' = TimerCancel(timers, _scheduler_timer)
    /\ caller' = [caller EXCEPT !.pc = "stop_clear"]
    /\ UNCHANGED <<_scheduler_running, _scheduler_timer, sched_calls, generations>>
    /\ UNCHANGED <<detVars, goalVars, queueVars, concVars, ingestVars, pendVars>>

\* self._scheduler_timer = None
StopClear ==
    /\ caller.pc = "stop_clear"
    /\ _scheduler_timer' = 0
    /\ caller' = [caller EXCEPT !.pc = "idle"]
    /\ UNCHANGED <<_scheduler_running, timers, sched_calls, generations>>
    /\ UNCHANGED <<detVars, goalVars, queueVars, concVars, ingestVars, pendVars>>

\* The interval of timer t is over: its thread calls run_and_reschedule.
TimerFires(t) ==
    /\ timers[t] = "pending"
    /\ timers' = [timers EXCEPT ![t] = "check"]
    /\ UNCHANGED <<_scheduler_running, _scheduler_timer, caller, sched_calls, generations>>
    /\ UNCHANGED <<detVars, goalVars, queueVars, concVars, ingestVars, pendVars>>

\* run_and_reschedule: if not self._scheduler_running: return
RunCheck(t) ==
    /\ timers[t] = "check"
    /\ timers' = [timers EXCEPT ![t] = IF _scheduler_running THEN "run" ELSE "done"]
    /\ UNCHANGED <<_scheduler_running, _scheduler_timer, caller, sched_calls, generations>>
    /\ UNCHANGED <<detVars, goalVars, queueVars, concVars, ingestVars, pendVars>>

\* asyncio.run(self.generate_report("executive_summary")) begins.
RunGenerate(t) ==
    /\ timers[t] = "run"
    /\ timers' = [timers EXCEPT ![t] = "generating"]
    /\ generations' = Append(generations, t)
    /\ UNCHANGED <<_scheduler_running, _scheduler_timer, caller, sched_calls>>
    /\ UNCHANGED <<detVars, goalVars, queueVars, concVars, ingestVars, pendVars>>

\* The generation ends, by its return or by an exception that is logged.
RunGenerated(t) ==
    /\ timers[t] = "generating"
    /\ timers' = [timers EXCEPT ![t] = "schedule_check"]
    /\ UNCHANGED <<_scheduler_running, _scheduler_timer, caller, sched_calls, generations>>
    /\ UNCHANGED <<detVars, goalVars, queueVars, concVars, ingestVars, pendVars>>

\* self._schedule_next(interval_hours): if not self._scheduler_running: return
RunScheduleCheck(t) ==
    /\ timers[t] = "schedule_check"
    /\ timers' = [timers EXCEPT ![t] = IF _scheduler_running THEN "schedule_create" ELSE "done"]
    /\ UNCHANGED <<_scheduler_running, _scheduler_timer, caller, sched_calls, generations>>
    /\ UNCHANGED <<detVars, goalVars, queueVars, concVars, ingestVars, pendVars>>

\* self._scheduler_timer = threading.Timer(interval_seconds, run_and_reschedule)
RunCreate(t) ==
    /\ timers[t] = "schedule_create"
    /\ FreshTimers # {}
    /\ timers' = [timers EXCEPT ![t] = "schedule_start", ![NextTimer] = "created"]
    /\ _scheduler_timer' = NextTimer
    /\ UNCHANGED <<_scheduler_running, caller, sched_calls, generations>>
    /\ UNCHANGED <<detVars, goalVars, queueVars, concVars, ingestVars, pendVars>>

\* self._scheduler_timer.start(); the callback returns.
RunStart(t) ==
    /\ timers[t] = "schedule_start"
    /\ timers' = [TimerStart(timers, _scheduler_timer) EXCEPT ![t] = "done"]
    /\ UNCHANGED <<_scheduler_running, _scheduler_timer, caller, sched_calls, generations>>
    /\ UNCHANGED <<detVars, goalVars, queueVars, concVars, ingestVars, pendVars>>

NextScheduler ==
    \/ StartBegin
    \/ StartSet
    \/ StartCheck
    \/ StartCreate
    \/ StartStart
    \/ StopBegin
    \/ StopTest
    \/ StopCancel
    \/ StopClear
    \/ \E t \in TimerIds : TimerFires(t)
    \/ \E t \in TimerIds : RunCheck(t)
    \/ \E t \in TimerIds : RunGenerate(t)
    \/ \E t \in TimerIds : RunGenerated(t)
    \/ \E t \in TimerIds : RunScheduleCheck(t)
    \/ \E t \in TimerIds : RunCreate(t)
    \/ \E t \in TimerIds : RunStart(t)

SpecScheduler == Init /\ [][NextScheduler]_vars

-----------------------------------------------------------------------------
(* Claims about the alert queue                                            *)

IsPrefix(a, b) == Len(a) <= Len(b) /\ a = SubSeq(b, 1, Len(a))

\* What stream s was handed so far: what it yielded, then what still waits.
Delivered(s) == received[s] \o mailbox[s]

\* What is due to stream s up to the alert of index upto: its preload, then
\* the alerts published since it registered.
Due(s, upto) == preload[s] \o SubSeq(published, reg_at[s] + 1, upto)

\* The last min(M, H) of the M alerts published so far, in publish order.
LastPublished ==
    SubSeq(published, Len(published) - Min(Len(published), max_history) + 1, Len(published))

\* The number of published alerts of type t.
PublishedOfType(t) == Cardinality({i \in 1..Len(published) : published[i].alert_type = t})

\* The streams that registered before the first publish and never found
\* their mailbox full.
EarlySubscribers ==
    {s \in Streams : stream[s].pc \in {"subscribed", "closed"} /\ reg_at[s] = 0 /\ dropped_at[s] = 0}

C4_HistoryIsLastPublished ==
    /\ Len(history) <= max_history
    /\ ~cleared => history = LastPublished

\* C4, its case: more alerts published than the history holds; the oldest
\* ones are gone.
C4_Witness ==
    /\ ~cleared
    /\ Len(published) > max_history
    /\ Len(history) = max_history
    /\ history[1].id = Len(published) - max_history + 1

\* C7: a mailbox never holds more than its capacity; a mailbox a publish
\* found full is out of the subscriber list from that publish on and holds
\* neither that alert nor a later one; every other subscribed stream has
\* been handed all that is due to it; the counters and the history are those
\* of the published sequence alone.
C7_FullMailboxDropped ==
    /\ \A s \in Streams : Len(mailbox[s]) <= QueueMaxsize
    /\ \A s \in Streams : dropped_at[s] # 0 =>
          /\ ~InList(subscribers, s)
          /\ Delivered(s) = Due(s, dropped_at[s] - 1)
    /\ \A s \in Streams : stream[s].pc = "subscribed" /\ dropped_at[s] = 0 =>
          /\ InList(subscribers, s)
          /\ Delivered(s) = Due(s, Len(published))
    /\ aq_stats.total_published = Len(published)
    /\ \A t \in AlertTypes :
          PublishedOfType(t) = IF t \in DOMAIN aq_stats.alerts_by_type THEN aq_stats.alerts_by_type[t] ELSE 0
    /\ ~cleared => history = LastPublished

\* C7, its case: a subscribed stream was dropped, an alert was published
\* after that, and another subscriber yielded the alert the first one missed.
C7_Witness ==
    \E s, o \in Streams :
        /\ stream[s].pc = "subscribed" /\ stream[o].pc = "subscribed"
        /\ dropped_at[s] # 0 /\ dropped_at[o] = 0
        /\ Len(published) > dropped_at[s]
        /\ \E i \in 1..Len(received[o]) : received[o][i].id = dropped_at[s]

\* The streams whose generator runs (registered, not ended).
LiveStreams == {s \in Streams : stream[s].pc = "subscribed"}

\* C8 as stated: the mailbox of a stream that ended, by close or by an error
\* while subscribing, is not in the subscriber list, and current_subscribers
\* is at most the number of live streams.
C8_EndedStreamsUnregistered ==
    /\ \A s \in Streams : stream[s].pc \in {"closed", "failed"} => ~InList(subscribers, s)
    /\ get_stats(Q).current_subscribers <= Cardinality(LiveStreams)

\* The sum of the alerts_by_type counters.
SumByType(by_type) ==
    LET n(t) == IF t \in DOMAIN by_type THEN by_type[t] ELSE 0
    IN  n("anomaly_detected") + n("goal_achieved")

\* The last min(n, H) of the first n published alerts.
LastOfFirst(n) == SubSeq(published, n - Min(n, max_history) + 1, n)

\* C9: the publishes are totally ordered by their history.append; whenever
\* the lock is free the history is the last max_history alerts of that order,
\* total_published equals the number of completed publishes and the sum of
\* the alerts_by_type counters, and every registered mailbox was handed the
\* alerts due to it in that order; at any moment what a mailbox was handed
\* is a prefix of what is due to it; get_stats and get_history return the
\* counters and the history of the publishes completed when they ran.
C9_OperationsAtomic ==
    /\ lock = 0 =>
          /\ completed = Len(published)
          /\ aq_stats.total_published = completed
          /\ SumByType(aq_stats.alerts_by_type) = completed
          /\ history = LastPublished
          /\ \A s \in Streams : stream[s].pc = "subscribed" /\ dropped_at[s] = 0 =>
                Delivered(s) = Due(s, Len(published))
    /\ \A s \in Streams : stream[s].pc # "new" =>
          IsPrefix(Delivered(s), Due(s, Len(published)))
    /\ aq_ret.op = "get_stats" =>
          /\ aq_ret.ret.total_published = aq_ret.completed
          /\ SumByType(aq_ret.ret.alerts_by_type) = aq_ret.completed
          /\ aq_ret.ret.history_size = Min(aq_ret.completed, max_history)
    /\ aq_ret.op = "get_history" =>
          aq_ret.ret = Reverse(PySliceLast(LastOfFirst(aq_ret.completed), aq_ret.count))

\* C9, its case: the goal producer's alert went in before the anomaly
\* producer's, a stream registered between the two and has read, the history
\* has overflowed and the lock is free again.
C9_Witness ==
    /\ lock = 0
    /\ completed > max_history
    /\ published[1].alert_type = "goal_achieved"
    /\ published[2].alert_type = "anomaly_detected"
    /\ \E s \in Streams : stream[s].pc = "subscribed" /\ reg_at[s] = 1 /\ Len(received[s]) >= 2

-----------------------------------------------------------------------------
(* Claims about the ingest path                                            *)

\* C6 as stated: the count, mean and standard deviation that classify an
\* event are those of the earlier events of its data type alone.
C6_BaselineExcludesEvent ==
    ingest_obs.op = "process_wearable_data" /\ ingest_obs.numeric =>
        /\ ingest_obs.used.count = ingest_obs.prior.count
        /\ RatEq(ingest_obs.used.mean, ingest_obs.prior.mean)
        /\ RatEq(ingest_obs.used.std_sq, ingest_obs.prior.std_sq)

\* A step that is one call of on_message.
IsIngestStep == event_count' = event_count + 1

\* An event that process_wearable_data carried to its end.
Processed(o) == o.op = "process_wearable_data"

\* The level the escalation rule gives an event, from the level it came with
\* and the severity of its anomaly ("none" without one).
RuleLevel(incoming, severity) ==
    IF incoming = "normal" /\ severity = "critical" THEN "critical"
    ELSE IF incoming = "normal" /\ severity = "warning" THEN "elevated"
    ELSE incoming

FiniteNumeric(o) ==
    \/ Processed(o) /\ o.numeric
    \/ o.op = "on_message_error" /\ o.finite

\* C19 as stated, for events whose value is a finite number or a text:
\* after each event latest_readings holds, for the type of a numeric event,
\* that event's value and level; a text leaves it as it was; the entries of
\* the other types stay. (One entry per type comes with the dict.)
C19_LatestReadingIsMostRecent ==
    [][IsIngestStep =>
          LET o == ingest_obs'
          IN  /\ \A d \in DOMAIN latest_readings :
                    d # o.data_type =>
                        d \in DOMAIN latest_readings' /\ latest_readings'[d] = latest_readings[d]
              /\ Processed(o) /\ ~o.numeric => latest_readings' = latest_readings
              /\ FiniteNumeric(o) =>
                    /\ o.data_type \in DOMAIN latest_readings'
                    /\ latest_readings'[o.data_type].value = o.value
                    /\ Processed(o) =>
                          latest_readings'[o.data_type].alert_level = RuleLevel(o.incoming, o.severity)]_vars

\* C20 as stated, for events whose value is a finite number or a text: an
\* event adds one notification, of its final level, when that level is
\* elevated or critical, and none when it is normal; an event that came as
\* elevated or critical ends at that level, so it always adds one.
C20_NotificationIffRaisedLevel ==
    [][IsIngestStep =>
          LET o == ingest_obs'
          IN  /\ Processed(o) =>
                    notifications' =
                        IF o.alert_level \in {"elevated", "critical"}
                        THEN Append(notifications, [data_type |-> o.data_type, level |-> o.alert_level])
                        ELSE notifications
              /\ o.op = "on_message_error" /\ o.finite /\ o.incoming \in {"elevated", "critical"} =>
                    Len(notifications') = Len(notifications) + 1]_vars

\* The alert types that the step published, in order.
NewAlertTypes ==
    [i \in 1..(Len(published') - Len(published)) |-> published'[Len(published) + i].alert_type]

\* The alert types due to an event: one for a detected anomaly, then one
\* for an achieved goal.
DueAlertTypes(detected, achieved) ==
    (IF detected THEN <<"anomaly_detected">> ELSE <<>>) \o
    (IF achieved THEN <<"goal_achieved">> ELSE <<>>)

\* C21: with the dashboard reachable, a numeric event publishes one
\* anomaly_detected alert exactly when its check_anomaly detected an
\* anomaly and one goal_achieved alert exactly when its update_progress
\* returned an achieved event, and nothing else; what it published is the
\* newest part of the queue's history.
C21_AlertsFollowOutcomes ==
    [][IsIngestStep /\ dashboard_up /\ Processed(ingest_obs') /\ ingest_obs'.numeric =>
          LET due == DueAlertTypes(det_ret'.is_anomaly, goal_ret'.ret.event_type = "achieved")
          IN  /\ Len(published') >= Len(published)
              /\ SubSeq(published', 1, Len(published)) = published
              /\ NewAlertTypes = due
              /\ due # <<>> /\ Len(due) <= max_history =>
                    LET hist == get_history([history |-> history'], Len(due))
                    IN  /\ Len(hist) = Len(due)
                        /\ \A i \in 1..Len(due) : hist[i] = published'[Len(published') + 1 - i]]_vars

\* C21, its case: an event that achieved its goal published its alert, a
\* later event was an anomaly and achieved nothing, and the two alerts are
\* the history of the queue, the anomaly's the newest.
C21_Witness ==
    /\ Processed(ingest_obs)
    /\ ingest_obs.numeric
    /\ dashboard_up
    /\ det_ret.op = "check_and_track_anomaly" /\ det_ret.is_anomaly
    /\ goal_ret.op = "update_progress" /\ goal_ret.ret.event_type = "None"
    /\ Len(history) = 2
    /\ history[1].alert_type = "goal_achieved"
    /\ history[2].alert_type = "anomaly_detected"
    /\ history = published

-----------------------------------------------------------------------------
(* Further claims about the detector                                       *)

\* The min(n, Len(h)) most recent elements of h, oldest first.
MostRecent(h, n) == SubSeq(h, Len(h) - Min(n, Len(h)) + 1, Len(h))

\* A step that is one call of check_anomaly on the detector alone.
IsCheckStep == det_ret'.op = "check_anomaly" /\ now' = now

\* A result of the sigma-deviation path: detected, with a finite deviation.
SigmaDetection(r) == r.detected /\ ~r.deviation_sigma.inf

\* C23: the anomaly history holds, in detection order and capped to the
\* most recent ones, exactly the results detected through the sigma path:
\* every entry is detected with a finite deviation and severity info or
\* warning, a check appends its result when it is such a detection and
\* leaves the history alone when it is not detected or is critical by an
\* absolute threshold.
C23_HistoryHoldsSigmaDetections ==
    /\ [](/\ Len(anomaly_history) <= AnomalyHistoryMaxlen
          /\ \A i \in 1..Len(anomaly_history) :
                /\ SigmaDetection(anomaly_history[i])
                /\ anomaly_history[i].severity \in {"info", "warning"})
    /\ [][IsCheckStep =>
             LET r == det_ret'.result
             IN  anomaly_history' =
                    IF SigmaDetection(r)
                    THEN MostRecent(Append(anomaly_history, r), AnomalyHistoryMaxlen)
                    ELSE anomaly_history]_vars

\* C23, its case: a sigma detection was just recorded behind a different
\* one, in a history that is full.
C23_Witness ==
    /\ IsCheck
    /\ SigmaDetection(det_ret.result)
    /\ Len(anomaly_history) = AnomalyHistoryMaxlen
    /\ anomaly_history[Len(anomaly_history)] = det_ret.result
    /\ anomaly_history[1] # det_ret.result

\* A step that is one call of add_reading on the detector alone.
IsAddStep == det_ret'.op = "add_reading" /\ now' = now

\* C24 as stated: after add_reading returns, whatever the timestamps and
\* their order, the window of the data type holds at most its capacity of
\* samples, none older than window_hours before the current time, and
\* count, mean, min and max are those of the samples it holds, the standard
\* deviation being 0 below two samples.
C24_WindowAfterAddReading ==
    [][IsAddStep =>
          LET rs == stats'[det_ret'.data_type]
              values == ValuesOf(rs.readings)
              n == Len(values)
          IN  /\ n <= ReadingsMaxlen
              /\ \A i \in 1..n : rs.readings[i][1] >= now - window_hours
              /\ rs.count = n
              /\ n >= 1 =>
                    /\ RatEq(rs.mean, <<SeqSum(values), n>>)
                    /\ rs.min_val = Finite(SeqMin(values))
                    /\ rs.max_val = Finite(SeqMax(values))
              /\ n < 2 => rs.std_sq[1] = 0]_vars

\* The operations of the detector that only read.
ReadOps ==
    {"check_anomaly", "get_baseline", "get_all_baselines", "get_stats",
     "get_anomaly_history"}

\* C28: check_anomaly, get_baseline, get_all_baselines, get_stats and
\* get_anomaly_history leave every sample window and its statistics as
\* they were, only add_reading and reset change them; a check reports the
\* baseline that is stored, a check that follows a check of the same type
\* reports the same baseline, and a baseline that was insufficient before
\* a check is insufficient after it.
C28_ReadsLeaveBaselinesAlone ==
    /\ [][det_ret'.op \in ReadOps => stats' = stats]_vars
    /\ [][stats' # stats => det_ret'.op \in {"add_reading", "reset"}]_vars
    /\ [][det_ret'.op = "check_anomaly" =>
             LET r == det_ret'.result
                 dt == det_ret'.data_type
             IN  /\ RatEq(r.baseline_mean, _get_mean(stats', dt))
                 /\ RatEq(r.baseline_std_sq, _get_std_sq(stats', dt))
                 /\ InsufficientBaseline(stats, dt) => InsufficientBaseline(stats', dt)
                 /\ det_ret.op = "check_anomaly" /\ det_ret.data_type = dt =>
                       /\ RatEq(r.baseline_mean, det_ret.result.baseline_mean)
                       /\ RatEq(r.baseline_std_sq, det_ret.result.baseline_std_sq)]_vars

\* C28, its case: the same value was checked twice with no add_reading in
\* between and both checks recorded the same detection against the stored
\* baseline.
C28_Witness ==
    /\ IsCheck
    /\ det_ret.data_type \in DOMAIN stats
    /\ Len(anomaly_history) = 2
    /\ anomaly_history[1] = det_ret.result
    /\ anomaly_history[2] = det_ret.result
    /\ det_ret.result.baseline_mean = stats[det_ret.data_type].mean
    /\ stats[det_ret.data_type].count = min_readings(det_ret.data_type)

-----------------------------------------------------------------------------
(* Further claims about the goal tracker                                   *)

\* A step that is one call of a public operation of the tracker: every
\* step but midnight.
IsGoalOperation == today' = today

\* C25 as stated: every public operation makes the day check before it
\* reads or changes progress, so that it leaves the tracker, and the
\* progress it read or changed, on today's date.
C25_RolloverBeforeEveryOperation ==
    [][IsGoalOperation => current_date' = today]_vars

\* C27 as stated: every alert that publish put into a registered mailbox
\* is eventually yielded by that consumer, which keeps iterating and is
\* never cancelled, whichever thread called publish.
C27_EnqueuedEventuallyYielded ==
    \A s \in Streams : \A n \in 1..(MaxPublish + 1) :
        (Len(received[s]) + Len(mailbox[s]) >= n) ~> (Len(received[s]) >= n)

-----------------------------------------------------------------------------
(* Further claims about the ingest path                                    *)

\* The lists in s, one after the other.
RECURSIVE Flatten(_)
Flatten(s) == IF s = <<>> THEN <<>> ELSE Head(s) \o Flatten(Tail(s))

\* C26 as stated: under any interleaving of the worker's stores with
\* get_pending_events, the events returned so far followed by the events
\* still pending are the events stored, each once and in arrival order; and
\* the queue is empty after a get_pending_events that no store overlapped.
C26_PendingEventsExactlyOnce ==
    /\ [](Flatten(returned) \o pending_events = stored_events)
    /\ [][getter.pc = "clear" /\ getter'.pc = "idle" /\ getter.events = pending_events =>
             pending_events' = <<>>]_vars

-----------------------------------------------------------------------------
(* Further claims about the alert queue                                    *)

\* C22 as stated: for every count >= 0 get_history(count) returns the
\* min(count, history size) most recent alerts, newest first, and for every
\* history_count >= 0 subscribe(include_history=true, history_count)
\* preloads the min(history_count, history size) most recent alerts, oldest
\* first.
C22_MostRecentCount ==
    [][aq_ret' # aq_ret =>
          /\ aq_ret'.op = "get_history" =>
                aq_ret'.ret = Reverse(MostRecent(history, aq_ret'.count))
          /\ aq_ret'.op = "subscribe" /\ aq_ret'.include_history /\ stream'[aq_ret'.stream].pc = "subscribed" =>
                /\ preload'[aq_ret'.stream] = MostRecent(history, aq_ret'.history_count)
                /\ mailbox'[aq_ret'.stream] = preload'[aq_ret'.stream]]_vars

\* The streams that run and never found their mailbox full.
IntactStreams == {s \in Streams : stream[s].pc = "subscribed" /\ dropped_at[s] = 0}

\* C29: the registration of a mailbox and its history snapshot are one
\* step among the publishes: for a running stream whose mailbox never
\* overflowed the snapshot is an end piece of what was published before
\* that step, what the stream was handed holds no alert twice and is in
\* publish order, and it holds every alert of a publish that began after
\* that step and has completed.
C29_SnapshotAndRegistrationAtomic ==
    \A s \in IntactStreams :
        LET d == Delivered(s)
            before == SubSeq(published, 1, reg_at[s])
        IN  /\ Len(preload[s]) <= reg_at[s]
            /\ preload[s] = SubSeq(before, reg_at[s] - Len(preload[s]) + 1, reg_at[s])
            /\ \A i, j \in 1..Len(d) : i < j => d[i].id < d[j].id
            /\ \A k \in (reg_at[s] + 1)..completed : \E i \in 1..Len(d) : d[i] = published[k]

\* C29, its case: a stream registered with the history after a publish,
\* yielded the alert of its snapshot and then the alert published after its
\* registration.
C29_Witness ==
    \E s \in IntactStreams :
        /\ reg_at[s] >= 1
        /\ preload[s] = <<published[reg_at[s]]>>
        /\ Len(received[s]) = 2
        /\ received[s][1] = preload[s][1]
        /\ received[s][2] = published[reg_at[s] + 1]

-----------------------------------------------------------------------------
(* Claims about the report scheduler                                       *)

\* The timers that are started and wait for their interval.
PendingTimers == {t \in TimerIds : timers[t] = "pending"}

\* The reschedule chains: a timer that was built and waits, or a callback
\* that runs and has not yet handed over to the timer it schedules.
RescheduleChains ==
    {t \in TimerIds : timers[t] \in {"created", "pending", "check", "run", "generating",
                                      "schedule_check", "schedule_create"}}

\* No call of start_scheduler or stop_scheduler is in progress and the last
\* one to return left the scheduler stopped.
StoppedAndReturned == caller.pc = "idle" /\ ~_scheduler_running

\* C30 as stated: under any interleaving of start_scheduler and
\* stop_scheduler with the timer callbacks there is at most one pending
\* timer and at most one reschedule chain; start_scheduler while running
\* builds no timer; after stop_scheduler has returned scheduler_running is
\* false, no timer is pending, and no scheduled generation starts before the
\* next start_scheduler.
C30_OneTimerOneChain ==
    /\ [](/\ Cardinality(PendingTimers) <= 1
          /\ Cardinality(RescheduleChains) <= 1
          /\ caller.pc = "idle" /\ caller.last = "stop" =>
                ~_scheduler_running /\ PendingTimers = {})
    /\ [][caller.pc = "idle" /\ _scheduler_running /\ sched_calls' # sched_calls /\ caller'.last = "start" =>
             timers' = timers /\ _scheduler_timer' = _scheduler_timer]_vars
    /\ [][StoppedAndReturned /\ StoppedAndReturned' => generations' = generations]_vars

=============================================================================
